---- MODULE Spec2Model ----
(***************************************************************************)
(* A model of the SongStringParser repository: the parse pipeline          *)
(* (parser.py), the step-2 normalizer, the step-3 album-prefix peeler,     *)
(* the step-4 bracket harvester with its classifiers, the step-1 path and  *)
(* extension stripper, and interleaved calls of the harvester.             *)
(*                                                                         *)
(* Text is modelled as a sequence of one-character strings; every regular  *)
(* expression of the source is translated into an operator over such       *)
(* sequences.  Positions are 1-based here (0-based in the source).         *)
(***************************************************************************)
EXTENDS Integers, Sequences, FiniteSets, TLC

VARIABLES parseSt, dedupeSt, normSt, prefixSt, harvestSt, classifySt, stripSt,
          callsSt

vars == <<parseSt, dedupeSt, normSt, prefixSt, harvestSt, classifySt, stripSt, callsSt>>

\* The state of a component no call is running in.
Idle == [pc |-> "idle"]

(***************************************************************************)
(* Characters and strings                                                  *)
(***************************************************************************)

UpperLetters == <<"A","B","C","D","E","F","G","H","I","J","K","L","M",
                  "N","O","P","Q","R","S","T","U","V","W","X","Y","Z">>

LowerLetters == <<"a","b","c","d","e","f","g","h","i","j","k","l","m",
                  "n","o","p","q","r","s","t","u","v","w","x","y","z">>

Digits == <<"0","1","2","3","4","5","6","7","8","9">>

RangeOf(f) == {f[i] : i \in DOMAIN f}

\* str.lower() on one character.
LowerChar(c) ==
  IF c \in RangeOf(UpperLetters)
    THEN LowerLetters[CHOOSE i \in 1..26 : UpperLetters[i] = c]
    ELSE c

\* str.upper() on one character.
UpperChar(c) ==
  IF c \in RangeOf(LowerLetters)
    THEN UpperLetters[CHOOSE i \in 1..26 : LowerLetters[i] = c]
    ELSE c

\* str.lower()
Lower(s) == [i \in 1..Len(s) |-> LowerChar(s[i])]

IsDigit(c) == c \in RangeOf(Digits)

IsAlpha(c) == c \in RangeOf(UpperLetters) \cup RangeOf(LowerLetters)

\* The regex class \w; of the characters outside ASCII that occur in the
\* inputs only the katakana letter is a word character.
IsWordChar(c) == IsAlpha(c) \/ IsDigit(c) \/ c = "_" \/ c = "TSU"

\* The regex class \s
IsSpace(c) == c \in {" ", "\t", "\n", "\r", "\f"}

\* s[a..b], empty when b < a.
Slice(s, a, b) == IF b < a THEN <<>> ELSE SubSeq(s, a, b)

\* All sequences over S of length at most n.
SeqsUpTo(S, n) == UNION {[1..k -> S] : k \in 0..n}

Min(a, b) == IF a < b THEN a ELSE b

Max(a, b) == IF a > b THEN a ELSE b

(***************************************************************************)
(* parser.py: SongStringParser.parse                                       *)
(***************************************************************************)

\* The stage methods of parser.py lines 86-151, in the order parse calls them.
StageNames == <<"_strip_path_and_extension", "_normalize_unicode_and_spacing",
                "_peel_track_disc_index", "_harvest_and_classify_brackets",
                "_resolve_artist_title_split", "_parse_artist_block",
                "_parse_title_block", "_consolidate_fields",
                "_final_sanity_checks">>

\* One stage method applied to the working state: each of them is the single
\* statement raise NotImplementedError("<name>").
RunStage(k, state) ==
  [raised |-> "NotImplementedError", arg |-> StageNames[k], state |-> state]

\* parse's local state dictionary, parser.py lines 24-39.
InitialWorkingState(raw) ==
  [raw |-> raw, working |-> raw, feat_artist |-> <<>>, remixer |-> <<>>,
   artists_primary |-> <<>>]

\* The stage calls of parse from stage k on: the first exception propagates
\* out of parse, otherwise the next stage runs on the updated state.
RECURSIVE RunStagesFrom(_, _)
RunStagesFrom(k, state) ==
  IF k > Len(StageNames)
    THEN [raised |-> "none", stage |-> 0, arg |-> "", state |-> state]
    ELSE LET r == RunStage(k, state)
         IN  IF r.raised # "none"
               THEN [raised |-> r.raised, stage |-> k, arg |-> r.arg,
                     state |-> r.state]
               ELSE RunStagesFrom(k + 1, r.state)

\* SongStringParser._dedupe_preserve_order, one loop iteration on item x.
DedupeKeyDropped(acc, x) ==
  IF x \in acc.seen
    THEN acc
    ELSE [seen |-> acc.seen \cup {x}, out |-> Append(acc.out, x)]

DedupeStep(acc, x) ==
  LET key == Lower(x)
  IN  IF key \in acc.seen
        THEN acc
        ELSE [seen |-> acc.seen \cup {key}, out |-> Append(acc.out, x)]

RECURSIVE DedupeFrom(_, _, _)
DedupeFrom(items, i, acc) ==
  IF i > Len(items) THEN acc.out
  ELSE DedupeFrom(items, i + 1, DedupeStep(acc, items[i]))

\* SongStringParser._dedupe_preserve_order
DedupePreserveOrder(items) == DedupeFrom(items, 1, [seen |-> {}, out |-> <<>>])

\* SongStringParser.parse: what a call on raw ends with.
ParseOutcome(raw) ==
  LET r == RunStagesFrom(1, InitialWorkingState(raw))
  IN  IF r.raised # "none"
        THEN [kind |-> r.raised, stage |-> r.stage, arg |-> r.arg]
        ELSE [kind |-> "ParseResult", stage |-> 0, arg |-> "",
              artists |-> DedupePreserveOrder(r.state.artists_primary
                             \o r.state.feat_artist \o r.state.remixer)]

(***************************************************************************)
(* Specification SpecParse: calls of SongStringParser.parse                *)
(***************************************************************************)

\* Bound: the longest raw string handed to parse.
MaxRawLen == 3

ParseChars == {"a", "-", " ", "("}

\* "Artist - Title"
ExArtistTitle == <<"A","r","t","i","s","t"," ","-"," ","T","i","t","l","e">>

ParseInputs == SeqsUpTo(ParseChars, MaxRawLen) \cup {ExArtistTitle}

InitParse ==
  /\ parseSt \in {[pc |-> "ready", raw |-> r] : r \in ParseInputs}
  /\ dedupeSt = Idle /\ normSt = Idle /\ prefixSt = Idle
  /\ harvestSt = Idle /\ classifySt = Idle /\ stripSt = Idle /\ callsSt = Idle

\* One call parser.parse(raw), to its return or its exception.
Parse ==
  /\ parseSt.pc = "ready"
  /\ parseSt' = [pc |-> "done", raw |-> parseSt.raw,
                 outcome |-> ParseOutcome(parseSt.raw)]
  /\ UNCHANGED <<dedupeSt, normSt, prefixSt, harvestSt, classifySt, stripSt, callsSt>>

NextParse == Parse

SpecParse == InitParse /\ [][NextParse]_vars

\* C1: every call of parse either returns a ParseResult or raises ParseError,
\* and ParseError comes only from stage 9, the final sanity check; no stage
\* 1-8 raises anything.
C1_OnlySanityGuardRaises ==
  parseSt.pc = "done" =>
    /\ parseSt.outcome.kind \in {"ParseResult", "ParseError"}
    /\ parseSt.outcome.kind = "ParseError" => parseSt.outcome.stage = 9

(***************************************************************************)
(* Specification SpecDedupe: the loop of _dedupe_preserve_order            *)
(***************************************************************************)

\* Bound: the longest list handed to _dedupe_preserve_order.
MaxItems == 3

NameCamelPhat == <<"C","a","m","e","l","P","h","a","t">>

NameCamelphatLower == <<"c","a","m","e","l","p","h","a","t">>

NameMK == <<"M","K">>

DedupeNames == {NameCamelPhat, NameCamelphatLower, NameMK, <<"m","k">>, <<"M","k">>}

InitDedupe ==
  /\ dedupeSt \in {[pc |-> "loop", items |-> l, i |-> 1, seen |-> {}, out |-> <<>>]
                     : l \in SeqsUpTo(DedupeNames, MaxItems)}
  /\ parseSt = Idle /\ normSt = Idle /\ prefixSt = Idle
  /\ harvestSt = Idle /\ classifySt = Idle /\ stripSt = Idle /\ callsSt = Idle

\* One iteration of "for x in items".
DedupeIterate ==
  /\ dedupeSt.pc = "loop"
  /\ dedupeSt.i <= Len(dedupeSt.items)
  /\ LET acc == DedupeStep([seen |-> dedupeSt.seen, out |-> dedupeSt.out],
                           dedupeSt.items[dedupeSt.i])
     IN  dedupeSt' = [dedupeSt EXCEPT !.i = @ + 1, !.seen = acc.seen,
                                      !.out = acc.out]
  /\ UNCHANGED <<parseSt, normSt, prefixSt, harvestSt, classifySt, stripSt, callsSt>>

\* The loop is exhausted: return out.
DedupeReturn ==
  /\ dedupeSt.pc = "loop"
  /\ dedupeSt.i > Len(dedupeSt.items)
  /\ dedupeSt' = [dedupeSt EXCEPT !.pc = "done"]
  /\ UNCHANGED <<parseSt, normSt, prefixSt, harvestSt, classifySt, stripSt, callsSt>>

NextDedupe == DedupeIterate \/ DedupeReturn

SpecDedupe == InitDedupe /\ [][NextDedupe]_vars

\* The indices of items whose element equals no earlier element
\* case-insensitively, in increasing order.
RECURSIVE FirstOccurrences(_, _)
FirstOccurrences(items, i) ==
  IF i > Len(items) THEN <<>>
  ELSE IF \E j \in 1..(i - 1) : Lower(items[j]) = Lower(items[i])
         THEN FirstOccurrences(items, i + 1)
         ELSE <<items[i]>> \o FirstOccurrences(items, i + 1)

\* C8: the returned list is the input without every element that equals an
\* earlier one case-insensitively: no two kept elements are case-insensitively
\* equal, first occurrences keep their casing and their relative order, and
\* applying the function again changes nothing.
C8_DedupeKeepsFirstOccurrences ==
  dedupeSt.pc = "done" =>
    /\ dedupeSt.out = FirstOccurrences(dedupeSt.items, 1)
    /\ \A i, j \in 1..Len(dedupeSt.out) :
         i # j => Lower(dedupeSt.out[i]) # Lower(dedupeSt.out[j])
    /\ DedupePreserveOrder(dedupeSt.out) = dedupeSt.out
    /\ dedupeSt.items = <<NameCamelPhat, NameCamelphatLower, NameMK>>
         => dedupeSt.out = <<NameCamelPhat, NameMK>>

\* A finished call on [CamelPhat, camelphat, MK] that dropped an element.
C8_Witness ==
  /\ dedupeSt.pc = "done"
  /\ dedupeSt.items = <<NameCamelPhat, NameCamelphatLower, NameMK>>
  /\ Len(dedupeSt.out) = 2

(***************************************************************************)
(* steps/step2_normalize.py: normalize_separators_whitespace               *)
(***************************************************************************)

\* Characters outside ASCII are written by name: NBSP is U+00A0 (no-break
\* space), ENDASH is U+2013, EMDASH is U+2014.
NormDashes == {"ENDASH", "EMDASH"}

\* unicodedata.normalize("NFKC", s) on the characters of the model: U+00A0
\* has the compatibility decomposition U+0020, the others are unchanged.
Nfkc(s) == [i \in 1..Len(s) |-> IF s[i] = "NBSP" THEN " " ELSE s[i]]

\* s.translate({code: ord('-') for code in dashes_to_hyphen})
TranslateDashes(s) == [i \in 1..Len(s) |-> IF s[i] \in NormDashes THEN "-" ELSE s[i]]

\* The first position >= i of s that holds no \s character (Len(s)+1 if none).
RECURSIVE SkipSpace(_, _)
SkipSpace(s, i) ==
  IF i <= Len(s) /\ IsSpace(s[i]) THEN SkipSpace(s, i + 1) ELSE i

\* The first position >= i of s that holds no character of the set cs.
RECURSIVE SkipSet(_, _, _)
SkipSet(s, i, cs) ==
  IF i <= Len(s) /\ s[i] \in cs THEN SkipSet(s, i + 1, cs) ELSE i

\* [\t\r\f\v]+
MatchHSpaceRun(s, i) ==
  LET e == SkipSet(s, i, {"\t", "\r", "\f"}) IN IF e > i THEN e ELSE 0

ReplSpace(s, i, e) == <<" ">>

\* \s*~\s*
MatchTilde(s, i) ==
  LET j == SkipSpace(s, i)
  IN  IF j <= Len(s) /\ s[j] = "~" THEN SkipSpace(s, j + 1) ELSE 0

ReplTilde(s, i, e) == <<" ", "~", " ">>

\* \s*\|\s*
MatchPipe(s, i) ==
  LET j == SkipSpace(s, i)
  IN  IF j <= Len(s) /\ s[j] = "|" THEN SkipSpace(s, j + 1) ELSE 0

ReplPipe(s, i, e) == <<" ", "|", " ">>

\* (?<=\S)\s*<opener>\s*
MatchOpenerAfterWord(s, i, opener) ==
  IF i > 1 /\ ~IsSpace(s[i - 1])
    THEN LET j == SkipSpace(s, i)
         IN  IF j <= Len(s) /\ s[j] = opener THEN SkipSpace(s, j + 1) ELSE 0
    ELSE 0

MatchParenOpen(s, i) == MatchOpenerAfterWord(s, i, "(")

MatchSquareOpen(s, i) == MatchOpenerAfterWord(s, i, "[")

MatchCurlyOpen(s, i) == MatchOpenerAfterWord(s, i, "{")

ReplParenOpen(s, i, e) == <<" ", "(">>

ReplSquareOpen(s, i, e) == <<" ", "[">>

ReplCurlyOpen(s, i, e) == <<" ", "{">>

\* \s+<closer>
MatchSpaceCloser(s, i, closer) ==
  LET j == SkipSpace(s, i)
  IN  IF j > i /\ j <= Len(s) /\ s[j] = closer THEN j + 1 ELSE 0

MatchSpaceParenClose(s, i) == MatchSpaceCloser(s, i, ")")

MatchSpaceSquareClose(s, i) == MatchSpaceCloser(s, i, "]")

MatchSpaceCurlyClose(s, i) == MatchSpaceCloser(s, i, "}")

ReplParenClose(s, i, e) == <<")">>

ReplSquareClose(s, i, e) == <<"]">>

ReplCurlyClose(s, i, e) == <<"}">>

\* " {2,}"
MatchSpaces2(s, i) ==
  LET e == SkipSet(s, i, {" "}) IN IF e >= i + 2 THEN e ELSE 0

\* \s-+\s
MatchSpacedHyphens(s, i) ==
  IF IsSpace(s[i])
    THEN LET j == SkipSet(s, i + 1, {"-"})
         IN  IF j > i + 1 /\ j <= Len(s) /\ IsSpace(s[j]) THEN j + 1 ELSE 0
    ELSE 0

ReplHyphen(s, i, e) == <<" ", "-", " ">>

\* (?<=\s)-(?=\S)
MatchHyphenAfterSpace(s, i) ==
  IF /\ s[i] = "-"
     /\ i > 1 /\ IsSpace(s[i - 1])
     /\ i < Len(s) /\ ~IsSpace(s[i + 1])
    THEN i + 1 ELSE 0

\* (?<=\S)-(?=\s)
MatchHyphenBeforeSpace(s, i) ==
  IF /\ s[i] = "-"
     /\ i > 1 /\ ~IsSpace(s[i - 1])
     /\ i < Len(s) /\ IsSpace(s[i + 1])
    THEN i + 1 ELSE 0

\* \s+([)\]\}]), replaced by group 1
MatchSpaceAnyCloser(s, i) ==
  LET j == SkipSpace(s, i)
  IN  IF j > i /\ j <= Len(s) /\ s[j] \in {")", "]", "}"} THEN j + 1 ELSE 0

ReplLastChar(s, i, e) == <<s[e - 1]>>

\* ([(\[\{])\s+, replaced by group 1
MatchAnyOpenerSpace(s, i) ==
  IF s[i] \in {"(", "[", "{"}
    THEN LET e == SkipSpace(s, i + 1) IN IF e > i + 1 THEN e ELSE 0
    ELSE 0

ReplFirstChar(s, i, e) == <<s[i]>>

\* The last position <= i of s that holds no \s character (0 if none).
RECURSIVE SkipSpaceBack(_, _)
SkipSpaceBack(s, i) ==
  IF i >= 1 /\ IsSpace(s[i]) THEN SkipSpaceBack(s, i - 1) ELSE i

\* str.strip()
Strip(s) == Slice(s, SkipSpace(s, 1), SkipSpaceBack(s, Len(s)))

\* str.lstrip()
LStrip(s) == Slice(s, SkipSpace(s, 1), Len(s))

\* str.rstrip()
RStrip(s) == Slice(s, 1, SkipSpaceBack(s, Len(s)))

\* The patterns of the normalizer's re.sub calls, by name: NormMatch is the
\* position after the match of pattern rx that starts at i (0: none starts
\* there); every pattern matches at least one character.
NormMatch(rx, s, i) ==
  CASE rx = "hspace" -> MatchHSpaceRun(s, i)
    [] rx = "tilde" -> MatchTilde(s, i)
    [] rx = "pipe" -> MatchPipe(s, i)
    [] rx = "open(" -> MatchParenOpen(s, i)
    [] rx = "open[" -> MatchSquareOpen(s, i)
    [] rx = "open{" -> MatchCurlyOpen(s, i)
    [] rx = "close)" -> MatchSpaceParenClose(s, i)
    [] rx = "close]" -> MatchSpaceSquareClose(s, i)
    [] rx = "close}" -> MatchSpaceCurlyClose(s, i)
    [] rx = "spaces" -> MatchSpaces2(s, i)
    [] rx = "hyphens" -> MatchSpacedHyphens(s, i)
    [] rx = "-after" -> MatchHyphenAfterSpace(s, i)
    [] rx = "-before" -> MatchHyphenBeforeSpace(s, i)
    [] rx = "closer" -> MatchSpaceAnyCloser(s, i)
    [] rx = "opener" -> MatchAnyOpenerSpace(s, i)

\* The replacement of the match s[i..e-1] of pattern rx.
NormRepl(rx, s, i, e) ==
  CASE rx \in {"hspace", "spaces"} -> ReplSpace(s, i, e)
    [] rx = "tilde" -> ReplTilde(s, i, e)
    [] rx = "pipe" -> ReplPipe(s, i, e)
    [] rx = "open(" -> ReplParenOpen(s, i, e)
    [] rx = "open[" -> ReplSquareOpen(s, i, e)
    [] rx = "open{" -> ReplCurlyOpen(s, i, e)
    [] rx = "close)" -> ReplParenClose(s, i, e)
    [] rx = "close]" -> ReplSquareClose(s, i, e)
    [] rx = "close}" -> ReplCurlyClose(s, i, e)
    [] rx \in {"hyphens", "-after", "-before"} -> ReplHyphen(s, i, e)
    [] rx = "closer" -> ReplLastChar(s, i, e)
    [] rx = "opener" -> ReplFirstChar(s, i, e)

\* re.sub(rx, repl, s) from position i on: matches are taken leftmost first
\* and do not overlap; lookbehinds read the string being scanned.
RECURSIVE ReSubFrom(_, _, _)
ReSubFrom(rx, s, i) ==
  IF i > Len(s) THEN <<>>
  ELSE LET e == NormMatch(rx, s, i)
       IN  IF e > i
             THEN NormRepl(rx, s, i, e) \o ReSubFrom(rx, s, e)
             ELSE <<s[i]>> \o ReSubFrom(rx, s, i + 1)

ReSub(rx, s) == ReSubFrom(rx, s, 1)

\* A step 7 that sets every hyphen between spaces, spaced or not.
CanonicalizeHyphensEverywhere(s) ==
  LET padded[i \in 0..Len(s)] ==
        IF i = 0 THEN <<>>
        ELSE padded[i - 1] \o (IF s[i] = "-" THEN <<" ", "-", " ">> ELSE <<s[i]>>)
  IN ReSub("spaces", padded[Len(s)])

\* Step 7 of the normalizer (lines 52-58): the three hyphen rewrites and the
\* collapse of the double spaces they leave.
CanonicalizeHyphens(s) ==
  LET a == ReSub("hyphens", s)
      b == ReSub("-after", a)
      c == ReSub("-before", b)
  IN  ReSub("spaces", c)

\* normalize_separators_whitespace(s)
NormalizeSeparatorsWhitespace(s) ==
  LET s1 == Nfkc(s)
      s2 == TranslateDashes(s1)
      s3 == ReSub("hspace", s2)
      s4a == ReSub("tilde", s3)
      s4 == ReSub("pipe", s4a)
      s5a == ReSub("open(", s4)
      s5b == ReSub("open[", s5a)
      s5c == ReSub("open{", s5b)
      s5d == ReSub("close)", s5c)
      s5e == ReSub("close]", s5d)
      s5 == ReSub("close}", s5e)
      s6 == ReSub("spaces", s5)
      s7 == CanonicalizeHyphens(s6)
      s8a == ReSub("closer", s7)
      s8b == ReSub("opener", s8a)
  IN  Strip(ReSub("spaces", s8b))

(***************************************************************************)
(* steps/step3_albumprefix.py: _RX_PATTERNS and clean_album_prefix         *)
(***************************************************************************)

\* Optional values: None is the empty sequence, a value v is <<v>>.
None == <<>>

Some(v) == <<v>>

\* The delimiter class [:\-._ ] of the four patterns.
PrefixDelims == {":", "-", ".", "_", " "}

\* The first position >= i of s that holds no digit.
RECURSIVE SkipDigits(_, _)
SkipDigits(s, i) ==
  IF i <= Len(s) /\ IsDigit(s[i]) THEN SkipDigits(s, i + 1) ELSE i

DigitValue(c) == (CHOOSE i \in 1..10 : Digits[i] = c) - 1

\* int(s) for a string of decimal digits.
RECURSIVE ParseInt(_)
ParseInt(s) ==
  IF s = <<>> THEN 0
  ELSE 10 * ParseInt(SubSeq(s, 1, Len(s) - 1)) + DigitValue(s[Len(s)])

\* Whether the literal lit (given in lower case) stands at position i of s,
\* compared as under re.IGNORECASE.
LiteralAt(s, i, lit) ==
  /\ i + Len(lit) - 1 <= Len(s)
  /\ \A j \in 1..Len(lit) : LowerChar(s[i + j - 1]) = lit[j]

\* \s*[:\-._ ]+\s* at position t, with the leading \s* ending before
\* position k: the regex engine tries k from the end of the whitespace run
\* downwards (greedy \s*, then backtracking).  The position after the match,
\* 0 if there is none.
RECURSIVE DelimRunBacktrack(_, _, _)
DelimRunBacktrack(s, t, k) ==
  IF k < t THEN 0
  ELSE IF k <= Len(s) /\ s[k] \in PrefixDelims
         THEN SkipSpace(s, SkipSet(s, k, PrefixDelims))
         ELSE DelimRunBacktrack(s, t, k - 1)

\* \s*[:\-._ ]+\s* at position t: the mandatory delimiter run that ends
\* patterns 2-4.
DelimRun(s, t) == DelimRunBacktrack(s, t, SkipSpace(s, t))

\* \s*[:\-._ ]*\s* at position t: the optional run that ends pattern 1.
OptionalDelimRun(s, t) == SkipSpace(s, SkipSet(s, SkipSpace(s, t), PrefixDelims))

NoMatch == [ok |-> FALSE]

\* (?:\s*[:\-._ ]\s*(?P<track>\d{1,3}))? of pattern 1 at position p, with the
\* leading \s* ending before position k (tried from the end of the whitespace
\* run downwards).  The span of the track digits, or NoMatch.
RECURSIVE DiscTrackBacktrack(_, _, _)
DiscTrackBacktrack(s, p, k) ==
  IF k < p THEN NoMatch
  ELSE LET q == SkipSpace(s, k + 1)
           e == Min(SkipDigits(s, q), q + 3)
       IN  IF k <= Len(s) /\ s[k] \in PrefixDelims /\ e > q
             THEN [ok |-> TRUE, from |-> q, to |-> e]
             ELSE DiscTrackBacktrack(s, p, k - 1)

\* Pattern 1: (CD|Disc|Disk) \s* <disc> [delimiter <track>] [delimiters]
MatchDiscPrefix(s) ==
  LET n == IF LiteralAt(s, 1, <<"c","d">>) THEN 2
           ELSE IF LiteralAt(s, 1, <<"d","i","s","c">>)
                   \/ LiteralAt(s, 1, <<"d","i","s","k">>) THEN 4
           ELSE 0
      d == SkipSpace(s, n + 1)
      de == SkipDigits(s, d)
      tr == DiscTrackBacktrack(s, de, SkipSpace(s, de))
      tok == IF tr.ok THEN tr.to ELSE de
  IN  IF n = 0 \/ de = d THEN NoMatch
      ELSE [ok |-> TRUE, pattern |-> 1,
            disc |-> Some(ParseInt(Slice(s, d, de - 1))),
            track |-> IF tr.ok THEN Some(ParseInt(Slice(s, tr.from, tr.to - 1)))
                      ELSE None,
            side |-> None,
            tokenEnd |-> tok, end |-> OptionalDelimRun(s, tok)]

\* Pattern 2: <side letter A-D> \s* <track, 1-2 digits> <delimiters>
MatchSidePrefix(s) ==
  LET d == SkipSpace(s, 2)
      de == SkipDigits(s, d)
      e == DelimRun(s, de)
  IN  IF /\ Len(s) >= 1 /\ LowerChar(s[1]) \in {"a", "b", "c", "d"}
         /\ de - d \in 1..2 /\ e > 0
        THEN [ok |-> TRUE, pattern |-> 2, disc |-> None,
              track |-> Some(ParseInt(Slice(s, d, de - 1))),
              side |-> Some(s[1]), tokenEnd |-> de, end |-> e]
        ELSE NoMatch

\* Pattern 3: <disc, 1-2 digits> \s* x \s* <track, 1-3 digits> <delimiters>
MatchDiscXTrackPrefix(s) ==
  LET de == SkipDigits(s, 1)
      x == SkipSpace(s, de)
      t == SkipSpace(s, x + 1)
      te == SkipDigits(s, t)
      e == DelimRun(s, te)
  IN  IF /\ de - 1 \in 1..2
         /\ x <= Len(s) /\ LowerChar(s[x]) = "x"
         /\ te - t \in 1..3 /\ e > 0
        THEN [ok |-> TRUE, pattern |-> 3,
              disc |-> Some(ParseInt(Slice(s, 1, de - 1))),
              track |-> Some(ParseInt(Slice(s, t, te - 1))),
              side |-> None, tokenEnd |-> te, end |-> e]
        ELSE NoMatch

\* Pattern 4: <track, 1-3 digits> <delimiters>
MatchTrackPrefix(s) ==
  LET de == SkipDigits(s, 1)
      e == DelimRun(s, de)
  IN  IF de - 1 \in 1..3 /\ e > 0
        THEN [ok |-> TRUE, pattern |-> 4, disc |-> None,
              track |-> Some(ParseInt(Slice(s, 1, de - 1))),
              side |-> None, tokenEnd |-> de, end |-> e]
        ELSE NoMatch

\* A pattern list in which the bare track number is tried before disc x track.
FirstPrefixMatchTrackFirst(s) ==
  IF MatchDiscPrefix(s).ok THEN MatchDiscPrefix(s)
  ELSE IF MatchSidePrefix(s).ok THEN MatchSidePrefix(s)
  ELSE IF MatchTrackPrefix(s).ok THEN MatchTrackPrefix(s)
  ELSE MatchDiscXTrackPrefix(s)

\* "for rx in _RX_PATTERNS: m = rx.match(working)": the first pattern, in
\* list order, that matches at the start of working.
FirstPrefixMatch(s) ==
  IF MatchDiscPrefix(s).ok THEN MatchDiscPrefix(s)
  ELSE IF MatchSidePrefix(s).ok THEN MatchSidePrefix(s)
  ELSE IF MatchDiscXTrackPrefix(s).ok THEN MatchDiscXTrackPrefix(s)
  ELSE MatchTrackPrefix(s)

\* Lines 69-79: a captured group is recorded unless the field is already set.
RecordOverwriting(old, captured) == IF captured # None THEN captured ELSE old

RecordFirstSeen(old, captured) ==
  IF captured # None /\ old = None THEN captured ELSE old

\* max_passes, the default of clean_album_prefix's parameter.
MaxPasses == 3

(***************************************************************************)
(* Specification SpecNormalize: normalize applied once, then to its result *)
(***************************************************************************)

\* Bound: the longest string handed to the normalizer.
MaxNormLen == 4

NormChars == {"a", "-", " ", "\t", "\n", "(", ")", "|", "ENDASH", "NBSP"}

\* "M-zine"
ExMzine == <<"M","-","z","i","n","e">>

\* "Artist_Name-Title__Live-Version.mp3"
ExArtistNameTitle ==
  <<"A","r","t","i","s","t","_","N","a","m","e","-","T","i","t","l","e","_","_",
    "L","i","v","e","-","V","e","r","s","i","o","n",".","m","p","3">>

\* The strings normalized: all strings of up to MaxNormLen characters, and
\* the documented glued tokens.
NormInputs == SeqsUpTo(NormChars, MaxNormLen) \cup {ExMzine, ExArtistNameTitle}

InitNormalize ==
  /\ normSt \in {[pc |-> "ready", input |-> s] : s \in NormInputs}
  /\ parseSt = Idle /\ dedupeSt = Idle /\ prefixSt = Idle
  /\ harvestSt = Idle /\ classifySt = Idle /\ stripSt = Idle /\ callsSt = Idle

\* normalize_separators_whitespace(input)
Normalize ==
  /\ normSt.pc = "ready"
  /\ normSt' = [pc |-> "once", input |-> normSt.input,
                out |-> NormalizeSeparatorsWhitespace(normSt.input)]
  /\ UNCHANGED <<parseSt, dedupeSt, prefixSt, harvestSt, classifySt, stripSt, callsSt>>

\* normalize_separators_whitespace applied to the result of the first call
NormalizeAgain ==
  /\ normSt.pc = "once"
  /\ normSt' = [pc |-> "twice", input |-> normSt.input, out |-> normSt.out,
                out2 |-> NormalizeSeparatorsWhitespace(normSt.out)]
  /\ UNCHANGED <<parseSt, dedupeSt, prefixSt, harvestSt, classifySt, stripSt, callsSt>>

NextNormalize == Normalize \/ NormalizeAgain

SpecNormalize == InitNormalize /\ [][NextNormalize]_vars

\* C2: the normalizer is idempotent: normalizing its own result changes
\* nothing, normalize(normalize(s)) = normalize(s).
C2_NormalizeIdempotent ==
  normSt.pc = "twice" => normSt.out2 = normSt.out

(***************************************************************************)
(* Specification SpecPrefix: the pass loop of clean_album_prefix           *)
(***************************************************************************)

\* Bound: the number of tokens an input of clean_album_prefix is made of.
MaxPrefixTokens == 4

PrefixTokens == {<<"C","D">>, <<"A">>, <<"T">>, <<"x">>, <<"1">>, <<"0","2">>,
                 <<" ">>, <<"-">>, <<"\t">>}

RECURSIVE Concat(_)
Concat(parts) == IF parts = <<>> THEN <<>> ELSE Head(parts) \o Concat(Tail(parts))

\* "7xBuroo - Title"
Ex7xBuroo == <<"7","x","B","u","r","o","o"," ","-"," ","T","i","t","l","e">>

\* "CDs Are the Future - Title"
ExCDsAre == <<"C","D","s"," ","A","r","e"," ","t","h","e"," ","F","u","t","u","r","e",
              " ","-"," ","T","i","t","l","e">>

\* "CD2 07 __ 01 - Main Artist - Title"
ExStacked == <<"C","D","2"," ","0","7"," ","_","_"," ","0","1"," ","-"," ",
               "M","a","i","n"," ","A","r","t","i","s","t"," ","-"," ",
               "T","i","t","l","e">>

\* "Main Artist - Title"
ExMainArtistTitle == <<"M","a","i","n"," ","A","r","t","i","s","t"," ","-"," ",
                       "T","i","t","l","e">>

\* "1-02-1-02-T": four stacked track prefixes
ExFourPrefixes == <<"1","-","0","2","-","1","-","0","2","-","T">>

\* "02-Artist A - Title"
Ex02ArtistA == <<"0","2","-","A","r","t","i","s","t"," ","A"," ","-"," ",
                 "T","i","t","l","e">>

\* "1 x 02 - T": both the disc x track and the bare track pattern match
Ex1x02T == <<"1"," ","x"," ","0","2"," ","-"," ","T">>

PrefixInputs ==
  {Concat(ts) : ts \in SeqsUpTo(PrefixTokens, MaxPrefixTokens)}
    \cup {Ex7xBuroo, ExCDsAre, ExStacked, ExFourPrefixes, Ex02ArtistA, Ex1x02T}

NoPrefixMatchYet == [ok |-> FALSE, before |-> <<>>]

InitPrefix ==
  /\ prefixSt \in {[pc |-> "start", input |-> s, working |-> s, disc |-> None,
                    track |-> None, side |-> None, passes |-> 0, iter |-> 0,
                    last |-> NoPrefixMatchYet] : s \in PrefixInputs}
  /\ parseSt = Idle /\ dedupeSt = Idle /\ normSt = Idle
  /\ harvestSt = Idle /\ classifySt = Idle /\ stripSt = Idle /\ callsSt = Idle

\* Lines 56-60: the empty string is returned at once, otherwise the loop
\* starts on s.lstrip().
PrefixEnter ==
  /\ prefixSt.pc = "start"
  /\ prefixSt' = IF prefixSt.input = <<>>
                   THEN [prefixSt EXCEPT !.pc = "done"]
                   ELSE [prefixSt EXCEPT !.pc = "loop",
                                         !.working = LStrip(prefixSt.input)]
  /\ UNCHANGED <<parseSt, dedupeSt, normSt, harvestSt, classifySt, stripSt, callsSt>>

\* A matching pass of a loop that is not bounded by max_passes.
PrefixPassUnbounded ==
  /\ prefixSt.pc = "loop"
  /\ LET m == FirstPrefixMatch(prefixSt.working)
     IN  /\ m.ok
         /\ prefixSt' =
              [prefixSt EXCEPT
                 !.disc = RecordFirstSeen(@, m.disc),
                 !.track = RecordFirstSeen(@, m.track),
                 !.side = RecordFirstSeen(@, IF m.side = None THEN None
                                             ELSE Some(UpperChar(m.side[1]))),
                 !.working = LStrip(Slice(prefixSt.working, m.end,
                                          Len(prefixSt.working))),
                 !.passes = @ + 1,
                 !.iter = @ + 1,
                 !.last = [m EXCEPT !.ok = TRUE] @@ [before |-> prefixSt.working]]
  /\ UNCHANGED <<parseSt, dedupeSt, normSt, harvestSt, classifySt, stripSt, callsSt>>

\* One pass of "for _ in range(max_passes)" in which a pattern matches: the
\* first matching pattern's groups are recorded and its match is consumed.
PrefixPass ==
  /\ prefixSt.pc = "loop"
  /\ prefixSt.iter < MaxPasses
  /\ LET m == FirstPrefixMatch(prefixSt.working)
     IN  /\ m.ok
         /\ prefixSt' =
              [prefixSt EXCEPT
                 !.disc = RecordFirstSeen(@, m.disc),
                 !.track = RecordFirstSeen(@, m.track),
                 !.side = RecordFirstSeen(@, IF m.side = None THEN None
                                             ELSE Some(UpperChar(m.side[1]))),
                 !.working = LStrip(Slice(prefixSt.working, m.end,
                                          Len(prefixSt.working))),
                 !.passes = @ + 1,
                 !.iter = @ + 1,
                 !.last = [m EXCEPT !.ok = TRUE] @@ [before |-> prefixSt.working]]
  /\ UNCHANGED <<parseSt, dedupeSt, normSt, harvestSt, classifySt, stripSt, callsSt>>

\* A pass in which no pattern matches: "if not matched_any: break".
PrefixNoMatch ==
  /\ prefixSt.pc = "loop"
  /\ prefixSt.iter < MaxPasses
  /\ ~FirstPrefixMatch(prefixSt.working).ok
  /\ prefixSt' = [prefixSt EXCEPT !.pc = "done"]
  /\ UNCHANGED <<parseSt, dedupeSt, normSt, harvestSt, classifySt, stripSt, callsSt>>

\* range(max_passes) is exhausted.
PrefixExhausted ==
  /\ prefixSt.pc = "loop"
  /\ prefixSt.iter >= MaxPasses
  /\ prefixSt' = [prefixSt EXCEPT !.pc = "done"]
  /\ UNCHANGED <<parseSt, dedupeSt, normSt, harvestSt, classifySt, stripSt, callsSt>>

NextPrefix == PrefixEnter \/ PrefixPass \/ PrefixNoMatch \/ PrefixExhausted

SpecPrefix == InitPrefix /\ [][NextPrefix]_vars

\* clean_album_prefix is a sequential loop that is always run to its return:
\* weak fairness of NextPrefix.  In every state with prefixSt.pc # "done" one
\* of the four actions is enabled and changes prefixSt, in a state with
\* prefixSt.pc = "done" none is, so ENABLED <<NextPrefix>>_vars is
\* prefixSt.pc # "done" and the fairness condition is written with it.
SpecPrefixFair ==
  SpecPrefix /\ ([]<>(prefixSt.pc = "done") \/ []<><<NextPrefix>>_vars)

\* C9: a pattern consumes a prefix only when its index token is followed by
\* at least one delimiter character (':', '-', '.', '_' or space), so a token
\* glued to letters is never consumed; "7xBuroo - Title" and
\* "CDs Are the Future - Title" come back unchanged with no disc, track, side.
C9_PrefixNeedsDelimiter ==
  /\ (prefixSt.pc \in {"loop", "done"} /\ prefixSt.last.ok) =>
       \E k \in prefixSt.last.tokenEnd .. (prefixSt.last.end - 1) :
          prefixSt.last.before[k] \in PrefixDelims
  /\ (prefixSt.pc = "done" /\ prefixSt.input \in {Ex7xBuroo, ExCDsAre}) =>
       /\ prefixSt.working = prefixSt.input
       /\ prefixSt.disc = None /\ prefixSt.track = None /\ prefixSt.side = None

\* C10: once disc, track or side is set, no later pass overwrites it, and
\* "CD2 07 __ 01 - Main Artist - Title" gives "Main Artist - Title", disc 2,
\* track 7.
C10_FirstSeenKept ==
  /\ [](prefixSt.pc = "done" /\ prefixSt.input = ExStacked =>
          /\ prefixSt.working = ExMainArtistTitle
          /\ prefixSt.disc = Some(2) /\ prefixSt.track = Some(7)
          /\ prefixSt.side = None)
  /\ [][prefixSt.pc = "loop" =>
          /\ prefixSt.disc # None => prefixSt'.disc = prefixSt.disc
          /\ prefixSt.track # None => prefixSt'.track = prefixSt.track
          /\ prefixSt.side # None => prefixSt'.side = prefixSt.side]_vars

\* The stacked example is done, and its second pass captured track 1 when
\* track 7 was already recorded.
C10_Witness ==
  /\ prefixSt.pc = "done"
  /\ prefixSt.input = ExStacked
  /\ prefixSt.passes = 2
  /\ prefixSt.last.track = Some(1)
  /\ prefixSt.track = Some(7)

(***************************************************************************)
(* step4_parse_brackets.py and steps/brackets: the indicator vocabulary,   *)
(* the regular expressions built from it, classification of an inner text  *)
(* and the nested bracket harvest.                                         *)
(***************************************************************************)

\* ParserConfig.bracket_pairs
BracketPairs == <<<<"(", ")">>, <<"[", "]">>, <<"{", "}">>, <<"<", ">">>>>

\* ParserConfig.feat_indicators
FeatIndicators ==
  <<<<"f","e","a","t",".">>,
    <<"f","t",".">>,
    <<"f","e","a","t","u","r","i","n","g">>,
    <<"w","i","t","h">>,
    <<"f","e","a","t">>,
    <<"f","t">>>>

\* ParserConfig.version_indicators
VersionIndicators ==
  <<<<"r","e","m","i","x">>,
    <<"r","m","x">>,
    <<"e","d","i","t">>,
    <<"v","e","r","s","i","o","n">>,
    <<"r","e","w","o","r","k">>,
    <<"r","e","f","i","x">>,
    <<"b","o","o","t","l","e","g">>,
    <<"v","i","p">>,
    <<"v","i","p"," ","m","i","x">>,
    <<"v","i","p"," ","r","e","m","i","x">>,
    <<"v","i","p"," ","r","m","x">>,
    <<"v","i","p"," ","v","e","r","s","i","o","n">>,
    <<"d","u","b">>,
    <<"d","u","b"," ","m","i","x">>,
    <<"c","l","u","b"," ","m","i","x">>,
    <<"r","a","d","i","o"," ","e","d","i","t">>,
    <<"a","c","o","u","s","t","i","c">>,
    <<"u","n","p","l","u","g","g","e","d">>,
    <<"e","x","t","e","n","d","e","d"," ","m","i","x">>,
    <<"f","i","x">>>>

\* ParserConfig.live_indicators
LiveIndicators ==
  <<<<"l","i","v","e">>,
    <<"l","i","v","e"," ","v","e","r","s","i","o","n">>,
    <<"l","i","v","e"," ","a","t">>,
    <<"l","i","v","e"," ","i","n">>,
    <<"l","i","v","e"," ","@">>,
    <<"s","e","s","s","i","o","n">>>>

\* ParserConfig.noise_indicators
NoiseIndicators ==
  <<<<"o","f","f","i","c","i","a","l"," ","v","i","d","e","o">>,
    <<"v","i","s","u","a","l","i","z","e","r">>,
    <<"v","i","z","u","a","l","i","z","e","r">>,
    <<"l","y","r","i","c"," ","v","i","d","e","o">>,
    <<"h","q">>,
    <<"h","d">>,
    <<"v","b","r">>,
    <<"v","i","d","e","o","c","l","i","p">>,
    <<"o","f","f","i","c","i","a","l"," ","v","i","s","u","a","l","i","z","e","r">>,
    <<"r","e","m","a","s","t","e","r","e","d">>,
    <<"r","e","m","a","s","t","e","r">>,
    <<"o","f","f","i","c","i","a","l"," ","r","e","m","a","s","t","e","r">>,
    <<"w","e","b">>,
    <<"p","r","o","m","o">>,
    <<"u","n","m","a","s","t","e","r","e","d">>,
    <<"f","i","n","a","l">>,
    <<"p","u","r","c","h","a","s","e"," ","a","t"," ","b","e","a","t","p","o","r","t">>,
    <<"b","e","a","t","p","o","r","t"," ","e","x","c","l","u","s","i","v","e">>,
    <<"s","c","-","r","i","p">>,
    <<"l","a","b","e","l","n","a","m","e">>,
    <<"p","r","o","m","o"," ","c","d">>,
    <<"l","a","b","e","l">>,
    <<"v","i","n","y","l"," ","r","i","p">>,
    <<"r","i","p">>,
    <<"c","d"," ","r","i","p">>,
    <<"r","a","d","i","o"," ","r","i","p">>>>

\* sorted(terms, key=len, reverse=True) is a stable sort: a term goes after
\* the terms that are at least as long and came before it.
RECURSIVE InsertByLen(_, _)
InsertByLen(sorted, t) ==
  IF sorted = <<>> THEN <<t>>
  ELSE IF Len(Head(sorted)) >= Len(t)
         THEN <<Head(sorted)>> \o InsertByLen(Tail(sorted), t)
         ELSE <<t>> \o sorted

RECURSIVE SortedByLenDesc(_)
SortedByLenDesc(terms) ==
  IF terms = <<>> THEN <<>>
  ELSE InsertByLen(SortedByLenDesc(SubSeq(terms, 1, Len(terms) - 1)),
                   terms[Len(terms)])

\* word_alternatives' is_regexy test: a term holding a regex metacharacter is
\* put into the alternation verbatim.  Of the configured terms only "feat."
\* and "ft." are, and their '.' then matches any character but a newline.
IsRegexy(term) ==
  \E k \in 1..Len(term) :
     term[k] \in {"\\", "[", "]", "(", ")", "^", "$", ".", "*", "+", "?",
                  "{", "}", "|"}

\* One alternative of word_alternatives (or of _join_escaped_with_whitespace
\* when dotAny is FALSE) matched at position i of s under re.IGNORECASE, from
\* the k-th character of the term on: a space of the term is the glue \s+,
\* every other character is itself.  The position after the match, 0 if none.
RECURSIVE TermEndFrom(_, _, _, _, _)
TermEndFrom(s, i, term, k, dotAny) ==
  IF k > Len(term) THEN i
  ELSE IF term[k] = " "
    THEN IF i <= Len(s) /\ IsSpace(s[i])
           THEN TermEndFrom(s, SkipSpace(s, i), term, k + 1, dotAny)
           ELSE 0
  ELSE IF i > Len(s) THEN 0
  ELSE IF \/ dotAny /\ term[k] = "." /\ s[i] # "\n"
          \/ LowerChar(s[i]) = LowerChar(term[k])
    THEN TermEndFrom(s, i + 1, term, k + 1, dotAny)
    ELSE 0

\* An alternative of word_alternatives matched at position i of s.
TermEnd(s, i, term) == TermEndFrom(s, i, term, 1, IsRegexy(term))

\* An escaped literal of the noise builders matched at position i of s.
LiteralTermEnd(s, i, term) == TermEndFrom(s, i, term, 1, FALSE)

\* \b at position i of s (between s[i-1] and s[i]).
WordBoundary(s, i) ==
  (i - 1 >= 1 /\ i - 1 <= Len(s) /\ IsWordChar(s[i - 1]))
    # (i >= 1 /\ i <= Len(s) /\ IsWordChar(s[i]))

\* Whether s[a..b] holds no newline, so that '.' matches each character.
NoNewline(s, a, b) == \A k \in a..b : s[k] # "\n"

\* The least q > k with a \b at q and no newline in s[k..q-1], from q on:
\* where a lazy (?P<name>.+?)\b that starts at k ends.  0 if there is none.
RECURSIVE BoundaryFrom(_, _)
BoundaryFrom(s, q) ==
  IF q > Len(s) + 1 \/ s[q - 1] = "\n" THEN 0
  ELSE IF WordBoundary(s, q) THEN q
  ELSE BoundaryFrom(s, q + 1)

LazyToBoundary(s, k) == IF k > Len(s) THEN 0 ELSE BoundaryFrom(s, k + 1)

\* The first match of a sequence of attempts, in the order the regex engine
\* makes them.
FirstOk(cands) ==
  LET oks == {k \in DOMAIN cands : cands[k].ok}
  IN IF oks = {} THEN NoMatch
     ELSE cands[CHOOSE k \in oks : \A j \in oks : k <= j]

\* The least index of a TRUE in a sequence of booleans, 0 if there is none.
FirstTrue(flags) ==
  LET ts == {k \in DOMAIN flags : flags[k]}
  IN IF ts = {} THEN 0 ELSE CHOOSE k \in ts : \A j \in ts : k <= j

RECURSIVE SkipSetBack(_, _, _)
SkipSetBack(s, i, cs) ==
  IF i >= 1 /\ s[i] \in cs THEN SkipSetBack(s, i - 1, cs) ELSE i

\* _tidy_name: s.strip(" -:()[]{}\"'\t")
TidyName(s) ==
  LET chars == {" ", "-", ":", "(", ")", "[", "]", "{", "}", "\"", "'", "\t"}
  IN Slice(s, SkipSet(s, 1, chars), SkipSetBack(s, Len(s), chars))

\* str.split(): the maximal runs of non-whitespace characters, from i on.
RECURSIVE SplitFrom(_, _)
SplitFrom(s, i) ==
  LET a == SkipSpace(s, i)
      b == CHOOSE e \in a..(Len(s) + 1) :
             /\ \A k \in a..(e - 1) : ~IsSpace(s[k])
             /\ e = Len(s) + 1 \/ IsSpace(s[e])
  IN IF a > Len(s) THEN <<>>
     ELSE <<SubSeq(s, a, b - 1)>> \o SplitFrom(s, b)

Split(s) == SplitFrom(s, 1)

\* str.capitalize()
Capitalize(w) ==
  [k \in 1..Len(w) |-> IF k = 1 THEN UpperChar(w[k]) ELSE LowerChar(w[k])]

\* " ".join(words)
RECURSIVE JoinSpace(_)
JoinSpace(words) ==
  IF words = <<>> THEN <<>>
  ELSE IF Len(words) = 1 THEN Head(words)
  ELSE Head(words) \o <<" ">> \o JoinSpace(Tail(words))

\* " ".join(w.capitalize() for w in v.split())
TitleWords(v) ==
  LET ws == Split(v) IN JoinSpace([k \in 1..Len(ws) |-> Capitalize(ws[k])])

\* The alternations the patterns are built from.
FeatAlt == SortedByLenDesc(FeatIndicators)

VersionAlt == SortedByLenDesc(VersionIndicators)

LiveExtraAlt ==
  SortedByLenDesc(SelectSeq(LiveIndicators, LAMBDA t : Lower(t) # <<"l","i","v","e">>))

\* feat_leading.search(t): ^(?:feat_alt)\s*[:\-]?\s*(?P<names>.+?)\s*$ on a
\* stripped text.  Via(e) is the rest of the pattern after an alternative
\* that ends before position e (0: the alternative does not match): the lazy
\* names group runs to the last character, and a ':' or '-' that is the last
\* character is given back to names by backtracking.
FeatLeading(t) ==
  LET Via(e) ==
        IF e = 0 \/ e > Len(t) THEN NoMatch
        ELSE LET a == SkipSpace(t, e)
                 b == IF a < Len(t) /\ t[a] \in {":", "-"} THEN a + 1 ELSE a
                 c == SkipSpace(t, b)
             IN IF c <= Len(t) /\ NoNewline(t, c, Len(t))
                  THEN [ok |-> TRUE, names |-> Slice(t, c, Len(t))]
                  ELSE NoMatch
  IN FirstOk([k \in 1..Len(FeatAlt) |-> Via(TermEnd(t, 1, FeatAlt[k]))])

\* feat_trailing.search(t): ^(?P<names>.+?)\s*(?:feat_alt)\s*[:\-]?\s*$.
\* TailOk(e) is \s*[:\-]?\s*$ from position e; At(n) is a match with
\* names = t[1..n]; the lazy names group takes the least n.
FeatTrailing(t) ==
  LET TailOk(e) ==
        /\ e > 0
        /\ LET a == SkipSpace(t, e)
           IN \/ a > Len(t)
              \/ t[a] \in {":", "-"} /\ SkipSpace(t, a + 1) > Len(t)
      At(n) ==
        /\ NoNewline(t, 1, n)
        /\ \E j \in (n + 1)..SkipSpace(t, n + 1) :
             \E k \in 1..Len(FeatAlt) : TailOk(TermEnd(t, j, FeatAlt[k]))
      n == FirstTrue([m \in 1..Len(t) |-> At(m)])
  IN IF n = 0 THEN NoMatch ELSE [ok |-> TRUE, names |-> SubSeq(t, 1, n)]

\* patterns.feat_leading.search(t) or patterns.feat_trailing.search(t)
FeatMatch(t) ==
  LET m == FeatLeading(t) IN IF m.ok THEN m ELSE FeatTrailing(t)

\* The first newline at or after position p of s, Len(s)+1 if none: how far
\* a greedy .* can run.
RECURSIVE LineEnd(_, _)
LineEnd(s, p) ==
  IF p <= Len(s) /\ s[p] # "\n" THEN LineEnd(s, p + 1) ELSE p

\* live_rx.search(t): \b(?:live(?:\s+(?:at|in|@)\b.*)?|live_extra_alt)\b.
\* LiveWord(i) is the first alternative at position i.
LiveSearch(t) ==
  LET LiveWord(i) ==
        /\ LiteralAt(t, i, <<"l","i","v","e">>)
        /\ \/ WordBoundary(t, i + 4)
           \/ LET j == SkipSpace(t, i + 4)
              IN /\ j > i + 4
                 /\ \E lit \in {<<"a","t">>, <<"i","n">>, <<"@">>} :
                      /\ LiteralAt(t, j, lit)
                      /\ WordBoundary(t, j + Len(lit))
                      /\ \E e \in (j + Len(lit))..LineEnd(t, j + Len(lit)) :
                           WordBoundary(t, e)
  IN \E i \in 1..Len(t) :
        /\ WordBoundary(t, i)
        /\ \/ LiveWord(i)
           \/ \E k \in 1..Len(LiveExtraAlt) :
                LET e == TermEnd(t, i, LiveExtraAlt[k])
                IN e > 0 /\ WordBoundary(t, e)

\* original_mix_rx.search(t): \boriginal\s*mix\b
OriginalMixSearch(t) ==
  \E i \in 1..Len(t) :
     /\ WordBoundary(t, i)
     /\ LiteralAt(t, i, <<"o","r","i","g","i","n","a","l">>)
     /\ LET j == SkipSpace(t, i + 8)
        IN LiteralAt(t, j, <<"m","i","x">>) /\ WordBoundary(t, j + 3)

\* version_rx.search(t): ^(?P<type>version_alt)$ on a stripped text; the
\* type group is then the whole text.
VersionOnly(t) ==
  \E k \in 1..Len(VersionAlt) : TermEnd(t, 1, VersionAlt[k]) = Len(t) + 1

\* byline_type_by_name_rx.search(t):
\* (?P<type>version_alt)\s+by\s+(?P<name>.+?)\b.  The search tries each
\* start position i in turn and, at each, the alternatives of version_alt in
\* order; Via(i, e) is the rest of the pattern after an alternative matched
\* on t[i..e-1] (e = 0: not matched).
TypeByName(t) ==
  LET Via(i, e) ==
        IF e = 0 THEN NoMatch
        ELSE LET j == SkipSpace(t, e)
                 k == SkipSpace(t, j + 2)
                 q == LazyToBoundary(t, k)
             IN IF j > e /\ LiteralAt(t, j, <<"b","y">>) /\ k > j + 2 /\ q > 0
                  THEN [ok |-> TRUE, name |-> SubSeq(t, k, q - 1),
                        type |-> Some(SubSeq(t, i, e - 1))]
                  ELSE NoMatch
      Pos(n) == ((n - 1) \div Len(VersionAlt)) + 1
      Alt(n) == VersionAlt[((n - 1) % Len(VersionAlt)) + 1]
  IN FirstOk([n \in 1..(Len(t) * Len(VersionAlt)) |->
                Via(Pos(n), TermEnd(t, Pos(n), Alt(n)))])

\* byline_indicator_name_rx.search(t):
\* (?:byline_alt)\s+(?P<name>.+?)\b(?:\s*\((?P<type>.+?)\))?, searched as
\* TypeByName is.  ParenType(q) is the text of the optional group at
\* position q, None when it does not match.
IndicatorName(t) ==
  LET ParenType(q) ==
        LET p == SkipSpace(t, q)
            r == FirstTrue([x \in 1..Len(t) |->
                   x >= p + 2 /\ t[x] = ")" /\ NoNewline(t, p + 1, x - 1)])
        IN IF p <= Len(t) /\ t[p] = "(" /\ r > 0
             THEN Some(SubSeq(t, p + 1, r - 1))
             ELSE None
      Via(e) ==
        IF e = 0 THEN NoMatch
        ELSE LET k == SkipSpace(t, e)
                 q == LazyToBoundary(t, k)
             IN IF k > e /\ q > 0
                  THEN [ok |-> TRUE, name |-> SubSeq(t, k, q - 1),
                        type |-> ParenType(q)]
                  ELSE NoMatch
      Pos(n) == ((n - 1) \div Len(VersionAlt)) + 1
      Alt(n) == VersionAlt[((n - 1) % Len(VersionAlt)) + 1]
  IN FirstOk([n \in 1..(Len(t) * Len(VersionAlt)) |->
                Via(TermEnd(t, Pos(n), Alt(n)))])

\* \s*(?P<type>version_alt)\b from position j: the first alternative, in
\* order, that ends on a word boundary.
TypeThenBoundary(t, j) ==
  FirstOk([k \in 1..Len(VersionAlt) |->
             LET e == TermEnd(t, j, VersionAlt[k])
             IN IF e > 0 /\ WordBoundary(t, e)
                  THEN [ok |-> TRUE, type |-> SubSeq(t, j, e - 1)]
                  ELSE NoMatch])

\* byline_possessive_rx.search(t): (?P<name>.+?)['’]\s*(?P<type>version_alt)\b.
\* At(i, a) is a match with name = t[i..a-1]; the search takes the least
\* start i and the lazy name the least end a.
Possessive(t) ==
  LET At(i, a) ==
        IF a <= Len(t) /\ t[a] \in {"'", "RSQUO"} /\ NoNewline(t, i, a - 1)
          THEN TypeThenBoundary(t, SkipSpace(t, a + 1))
          ELSE NoMatch
      End(i) == FirstTrue([a \in 1..Len(t) |-> a > i /\ At(i, a).ok])
      i == FirstTrue([x \in 1..Len(t) |-> End(x) > 0])
      a == End(i)
  IN IF i = 0 THEN NoMatch
     ELSE [ok |-> TRUE, name |-> SubSeq(t, i, a - 1),
           type |-> Some(At(i, a).type)]

\* byline_name_type_rx.search(t): (?P<name>.+?)\s+(?P<type>version_alt)\b,
\* searched as Possessive is.
NameType(t) ==
  LET At(i, a) ==
        IF a <= Len(t) /\ IsSpace(t[a]) /\ NoNewline(t, i, a - 1)
          THEN TypeThenBoundary(t, SkipSpace(t, a))
          ELSE NoMatch
      End(i) == FirstTrue([a \in 1..Len(t) |-> a > i /\ At(i, a).ok])
      i == FirstTrue([x \in 1..Len(t) |-> End(x) > 0])
      a == End(i)
  IN IF i = 0 THEN NoMatch
     ELSE [ok |-> TRUE, name |-> SubSeq(t, i, a - 1),
           type |-> Some(At(i, a).type)]

\* for tok in sorted(VERSION_INDICATORS, key=len, reverse=True):
\*     if head.startswith(tok.lower()): v = tok; break
\* on head = t.lower(): the indicator is compared character by character, a
\* space of the indicator with one space of the text.
InferredVersion(t) ==
  LET StartsWith(prefix) ==
        Len(prefix) <= Len(t) /\ Lower(SubSeq(t, 1, Len(prefix))) = Lower(prefix)
      k == FirstTrue([x \in 1..Len(VersionAlt) |-> StartsWith(VersionAlt[x])])
  IN IF k = 0 THEN None ELSE Some(VersionAlt[k])

\* The positions where a match of one of NOISE_REGEXES that starts at
\* position i of t can end.
NoiseRegexEnds(t, i) ==
  LET \* the literals (?:kbps|kb/s|kbit/s|k) of BITRATE_RX
      BitrateUnits ==
        {<<"k","b","p","s">>, <<"k","b","/","s">>,
         <<"k","b","i","t","/","s">>, <<"k">>}
      \* \d{2,3}\s*: the positions after a run of 2 or 3 digits at i and
      \* the whitespace after it
      DigitRunEnds ==
        {SkipSpace(t, i + n) : n \in {m \in {2, 3} : SkipDigits(t, i) >= i + m}}
  IN
  IF ~WordBoundary(t, i) THEN {}
  ELSE
    \* \bcat[#-]\S+\b
    {e \in (i + 5)..(Len(t) + 1) :
        /\ LiteralAt(t, i, <<"c","a","t">>)
        /\ t[i + 3] \in {"#", "-"}
        /\ \A x \in (i + 4)..(e - 1) : ~IsSpace(t[x])
        /\ WordBoundary(t, e)}
    \cup
    \* \btrack\d{1,2}\b
    {e \in {i + 6, i + 7} :
        /\ LiteralAt(t, i, <<"t","r","a","c","k">>)
        /\ SkipDigits(t, i + 5) >= e
        /\ WordBoundary(t, e)}
    \cup
    \* \bkey\s+[A-G][#b]?\d?\b
    {e \in (i + 5)..(Len(t) + 1) :
        /\ LiteralAt(t, i, <<"k","e","y">>)
        /\ LET j == SkipSpace(t, i + 3)
           IN /\ j > i + 3 /\ j <= Len(t)
              /\ LowerChar(t[j]) \in {"a", "b", "c", "d", "e", "f", "g"}
              /\ \/ e = j + 1
                 \/ e = j + 2 /\ (LowerChar(t[j + 1]) \in {"#", "b"} \/ IsDigit(t[j + 1]))
                 \/ e = j + 3 /\ LowerChar(t[j + 1]) \in {"#", "b"} /\ IsDigit(t[j + 2])
        /\ WordBoundary(t, e)}
    \cup
    \* \b\d{2,3}\s*bpm\b
    {j + 3 : j \in {x \in DigitRunEnds :
        LiteralAt(t, x, <<"b","p","m">>) /\ WordBoundary(t, x + 3)}}
    \cup
    \* \b\d{2,3}\s*(?:kbps|kb/s|kbit/s|k)\b
    UNION {{j + Len(u) : u \in {v \in BitrateUnits :
              LiteralAt(t, j, v) /\ WordBoundary(t, j + Len(v))}} :
           j \in DigitRunEnds}
    \cup
    \* \bV[0-9]\b
    {e \in {i + 2} :
        /\ LiteralAt(t, i, <<"v">>) /\ e <= Len(t) + 1 /\ IsDigit(t[i + 1])
        /\ WordBoundary(t, e)}
    \cup
    \* \b(?:CBR|VBR)\b
    {e \in {i + 3} :
        /\ LiteralAt(t, i, <<"c","b","r">>) \/ LiteralAt(t, i, <<"v","b","r">>)
        /\ WordBoundary(t, e)}

\* The ends of the literal alternatives \b<lit>\b of build_noise_alt at i.
NoiseWordEnds(t, i) ==
  {e \in {LiteralTermEnd(t, i, NoiseIndicators[k]) : k \in 1..Len(NoiseIndicators)} :
      e > 0 /\ WordBoundary(t, i) /\ WordBoundary(t, e)}

\* The ends of the literal alternatives (?:<lit>) of build_noise_fullmatch_alt.
NoiseLiteralEnds(t, i) ==
  {LiteralTermEnd(t, i, NoiseIndicators[k]) : k \in 1..Len(NoiseIndicators)} \ {0}

\* noise_rx.search(t) with noise_rx built by build_noise_alt.
NoiseSearch(t) ==
  \E i \in 1..Len(t) : NoiseWordEnds(t, i) \cup NoiseRegexEnds(t, i) # {}

\* noise_full_rx.fullmatch(t) with noise_full_rx built by
\* build_noise_fullmatch_alt(allow_quotes=False).
NoiseFull(t) ==
  (Len(t) + 1) \in NoiseLiteralEnds(t, 1) \cup NoiseRegexEnds(t, 1)

\* Harvested(raw="", text=t, type=..., artist=..., version=...); span is
\* left at its default None.
Harvested(t, type, artist, version) ==
  [raw |-> <<>>, text |-> t, type |-> type, artist |-> artist,
   version |-> version, span |-> None]

\* `s or None` for a string s.
OrNone(s) == IF s = <<>> THEN None ELSE Some(s)

\* _classify, "Feat (strong, early)": the segment, None when neither feat
\* pattern matches the stripped text t.
ClassifyFeat(t) ==
  LET m == FeatMatch(t)
  IN IF m.ok THEN Some(Harvested(t, "feat", OrNone(TidyName(m.names)), None))
     ELSE None

\* _classify, "Live".
ClassifyLive(t) ==
  IF LiveSearch(t) THEN Some(Harvested(t, "live", None, None)) ELSE None

\* The segment of a byline match m: the version is the type group, or else
\* the longest indicator the text starts with, title-cased.
BylineSegment(t, m) ==
  LET v == IF m.type # None THEN m.type ELSE InferredVersion(t)
  IN Harvested(t, "remix", OrNone(TidyName(m.name)),
               IF v = None THEN None ELSE OrNone(TitleWords(v[1])))

\* A name+type segment that keeps the matched type as it is written.
NameTypeSegmentVerbatim(t, m) ==
  Harvested(t, "remix", Some(TidyName(Strip(m.name))), Some(m.type[1]))

\* The segment of a name+type match m whose name passed the guard.
NameTypeSegment(t, m) ==
  Harvested(t, "remix", Some(TidyName(Strip(m.name))), Some(TitleWords(m.type[1])))

\* The three byline patterns in the order of the for loop.
BylineMatch(t) ==
  LET m1 == TypeByName(t)
      m2 == IndicatorName(t)
  IN IF m1.ok THEN m1 ELSE IF m2.ok THEN m2 ELSE Possessive(t)

\* _classify, "ORIGINAL" to "guarded name+type": original mix, version-only,
\* the three bylines, then name+type unless the name is itself a version or
\* live word by version_rx / live_rx.
ClassifyVersion(t) ==
  IF OriginalMixSearch(t)
    THEN Some(Harvested(t, "version", None, Some(<<"O","r","i","g","i","n","a","l"," ","M","i","x">>)))
  ELSE IF VersionOnly(t)
    THEN Some(Harvested(t, "version", None, Some(TitleWords(t))))
  ELSE LET b == BylineMatch(t)
           m == NameType(t)
       IN IF b.ok THEN Some(BylineSegment(t, b))
          ELSE IF /\ m.ok
                  /\ ~(VersionOnly(Strip(m.name)) \/ LiveSearch(Strip(m.name)))
            THEN Some(NameTypeSegment(t, m))
            ELSE None

\* _classify, "Noise (scene)".
ClassifyNoise(t) ==
  IF NoiseFull(t) \/ NoiseSearch(t)
    THEN Some(Harvested(t, "noise", None, None))
    ELSE None

\* The rules of _classify swapped: noise tried before the version rules.
ClassifyNoiseFirst(text) ==
  LET t == Strip(text)
      feat == ClassifyFeat(t)
      live == ClassifyLive(t)
      version == ClassifyVersion(t)
      noise == ClassifyNoise(t)
  IN IF feat # None THEN feat[1]
     ELSE IF live # None THEN live[1]
     ELSE IF noise # None THEN noise[1]
     ELSE IF version # None THEN version[1]
     ELSE Harvested(t, "unknown", None, None)

\* _classify(text, patterns): the rules in the order of the code, each
\* returning at once when it matches; unknown when none does.
Classify(text) ==
  LET t == Strip(text)
      feat == ClassifyFeat(t)
      live == ClassifyLive(t)
      version == ClassifyVersion(t)
      noise == ClassifyNoise(t)
  IN IF feat # None THEN feat[1]
     ELSE IF live # None THEN live[1]
     ELSE IF version # None THEN version[1]
     ELSE IF noise # None THEN noise[1]
     ELSE Harvested(t, "unknown", None, None)

\* FeatClassifier.classify
FeatClassifierClassify(text) ==
  LET t == Strip(text)
      m == FeatMatch(t)
  IN IF m.ok THEN Some(Harvested(t, "feat", OrNone(TidyName(m.names)), None))
     ELSE None

\* LiveClassifier.classify
LiveClassifierClassify(text) ==
  LET t == Strip(text)
  IN IF LiveSearch(t) THEN Some(Harvested(t, "live", None, None)) ELSE None

\* RemixClassifier's guard: any(indicator in candidate_name ...) over the
\* version and the live indicators, a case-sensitive substring test.
NameHoldsIndicator(name) ==
  LET Contains(sub) ==
        \E i \in 1..(Len(name) - Len(sub) + 1) :
           SubSeq(name, i, i + Len(sub) - 1) = sub
  IN \/ \E k \in 1..Len(VersionIndicators) : Contains(VersionIndicators[k])
     \/ \E k \in 1..Len(LiveIndicators) : Contains(LiveIndicators[k])

\* RemixClassifier.classify
RemixClassifierClassify(text) ==
  LET t == Strip(text)
      b == BylineMatch(t)
      m == NameType(t)
  IN IF VersionOnly(t)
       THEN Some(Harvested(t, "version", None, Some(TitleWords(t))))
     ELSE IF b.ok THEN Some(BylineSegment(t, b))
     ELSE IF m.ok /\ ~NameHoldsIndicator(Strip(m.name))
       THEN Some(NameTypeSegment(t, m))
     ELSE None

\* patterns[0].fullmatch(t): the search alternation of _build_noise_alt has
\* to match the whole text.
NoiseWordFull(t) ==
  (Len(t) + 1) \in NoiseWordEnds(t, 1) \cup NoiseRegexEnds(t, 1)

\* patterns[1].search(t): ^(?:q(?:lit)q|q(?:rx)q)$ with q = ["'“”‘’]?\s* of
\* _build_noise_fullmatch_alt(allow_quotes=True).
NoiseQuotedFull(t) ==
  LET QuoteChars == {"\"", "'", "LDQUO", "RDQUO", "LSQUO", "RSQUO"}
  IN
  \E i \in {1} \cup {x \in {2} : Len(t) >= 1 /\ t[1] \in QuoteChars} :
     \E e \in NoiseLiteralEnds(t, SkipSpace(t, i))
                \cup NoiseRegexEnds(t, SkipSpace(t, i)) :
        \E f \in {e} \cup {x \in {e + 1} : e <= Len(t) /\ t[e] \in QuoteChars} :
           SkipSpace(t, f) > Len(t)

\* NoiseClassifier.classify
NoiseClassifierClassify(text) ==
  LET t == Strip(text)
  IN IF NoiseWordFull(t) \/ NoiseQuotedFull(t)
       THEN Some(Harvested(t, "noise", None, None))
       ELSE None

\* An UnknownClassifier that gives no result.
UnknownClassifierDeclines(text) == None

\* UnknownClassifier.classify
UnknownClassifierClassify(text) ==
  Some(Harvested(Strip(text), "unknown", None, None))

\* BracketParser.__init__: self.classifiers, by the classes' name attribute.
Classifiers == <<"feat", "live", "remix", "noise", "unknown">>

\* clf.classify(inner_text) for the classifier named clf.
ClassifierClassify(clf, text) ==
  CASE clf = "feat" -> FeatClassifierClassify(text)
    [] clf = "live" -> LiveClassifierClassify(text)
    [] clf = "remix" -> RemixClassifierClassify(text)
    [] clf = "noise" -> NoiseClassifierClassify(text)
    [] clf = "unknown" -> UnknownClassifierClassify(text)

\* openers / closers of _find_spans_nested
Openers == {BracketPairs[k][1] : k \in 1..Len(BracketPairs)}

Closers == {BracketPairs[k][2] : k \in 1..Len(BracketPairs)}

\* closers[ch]
OpenerOf(ch) ==
  BracketPairs[CHOOSE k \in 1..Len(BracketPairs) : BracketPairs[k][2] = ch][1]

\* A closer pairs with the nearest opener of its kind anywhere on the stack
\* and takes only that opener off.
ScanStepAnyDepth(st, ch, i) ==
  LET hits == {k \in 1..Len(st.stack) : st.stack[k].ch = OpenerOf(ch)}
      top == CHOOSE k \in hits : \A j \in hits : j <= k
  IN IF ch \in Openers
       THEN [st EXCEPT !.stack = Append(@, [ch |-> ch, pos |-> i])]
     ELSE IF ch \in Closers /\ hits # {}
       THEN [st EXCEPT
               !.stack = SubSeq(@, 1, top - 1) \o SubSeq(@, top + 1, Len(@)),
               !.spans = Append(@, [start |-> st.stack[top].pos, end |-> i + 1,
                                    l |-> st.stack[top].ch, r |-> ch,
                                    depth |-> top])]
     ELSE st

\* A matched closer records its span but leaves the opener on the stack.
ScanStepKeepsOpener(st, ch, i) ==
  IF ch \in Openers
    THEN [st EXCEPT !.stack = Append(@, [ch |-> ch, pos |-> i])]
  ELSE IF /\ ch \in Closers
          /\ st.stack # <<>>
          /\ st.stack[Len(st.stack)].ch = OpenerOf(ch)
    THEN [st EXCEPT
            !.spans = Append(@, [start |-> st.stack[Len(st.stack)].pos,
                                 end |-> i + 1,
                                 l |-> st.stack[Len(st.stack)].ch, r |-> ch,
                                 depth |-> Len(st.stack)])]
  ELSE st

\* One iteration of _find_spans_nested's loop on character ch at index i
\* (0-based, as in the code): st holds the stack and the spans.
ScanStep(st, ch, i) ==
  IF ch \in Openers
    THEN [st EXCEPT !.stack = Append(@, [ch |-> ch, pos |-> i])]
  ELSE IF /\ ch \in Closers
          /\ st.stack # <<>>
          /\ st.stack[Len(st.stack)].ch = OpenerOf(ch)
    THEN LET top == st.stack[Len(st.stack)]
             rest == SubSeq(st.stack, 1, Len(st.stack) - 1)
         IN [st EXCEPT
               !.stack = rest,
               !.spans = Append(@, [start |-> top.pos, end |-> i + 1,
                                    l |-> top.ch, r |-> ch,
                                    depth |-> Len(rest) + 1])]
  ELSE st

\* The key with the depth ascending: outermost spans first.
SpanBeforeShallowFirst(a, b) ==
  a.depth < b.depth \/ (a.depth = b.depth /\ a.start < b.start)

\* The sort key (-spans[i].depth, spans[i].start): whether a sorts before b.
SpanBefore(a, b) ==
  a.depth > b.depth \/ (a.depth = b.depth /\ a.start < b.start)

\* Insertion of index x into a sorted list of indices of spans (stable).
RECURSIVE InsertSpan(_, _, _)
InsertSpan(spans, sorted, x) ==
  IF sorted = <<>> THEN <<x>>
  ELSE IF SpanBefore(spans[x], spans[Head(sorted)])
         THEN <<x>> \o sorted
         ELSE <<Head(sorted)>> \o InsertSpan(spans, Tail(sorted), x)

\* sorted(range(n), key=lambda i: (-spans[i].depth, spans[i].start)), as
\* 1-based indices into spans.
RECURSIVE SortedSpans(_, _)
SortedSpans(spans, n) ==
  IF n = 0 THEN <<>> ELSE InsertSpan(spans, SortedSpans(spans, n - 1), n)

\* re.sub(r"\s{2,}", " ", s): a run of two or more whitespace characters
\* becomes one space, a single whitespace character stays.
RECURSIVE CollapseSpaces(_)
CollapseSpaces(s) ==
  IF s = <<>> THEN <<>>
  ELSE LET e == SkipSpace(s, 1)
       IN IF e > 2 THEN <<" ">> \o CollapseSpaces(SubSeq(s, e, Len(s)))
          ELSE <<Head(s)>> \o CollapseSpaces(Tail(s))

\* A test that only takes the empty or blank text for empty.
IsEffectivelyEmptyBlankOnly(text) ==
  text = <<>> \/ Strip(text) = <<>>

\* _is_effectively_empty: empty, blank, or ^[\s\-\–\—_/|:;,.]+$
IsEffectivelyEmpty(text) ==
  LET SeparatorChars ==
        {"-", "ENDASH", "EMDASH", "_", "/", "|", ":", ";", ",", "."}
  IN \/ text = <<>>
     \/ Strip(text) = <<>>
     \/ \A k \in 1..Len(text) : IsSpace(text[k]) \/ text[k] \in SeparatorChars

\* The alive characters joined with a space after each one.
AliveCharsSpaced(base, alive, lo, hi) ==
  LET joined[i \in lo..(IF hi > lo THEN hi ELSE lo)] ==
        IF i = lo THEN <<>>
        ELSE joined[i - 1] \o (IF alive[i] THEN <<base[i], " ">> ELSE <<>>)
  IN joined[IF hi > lo THEN hi ELSE lo]

\* The characters of base at the 0-based indices lo..hi-1 that are still
\* alive, in order.
RECURSIVE AliveChars(_, _, _, _)
AliveChars(base, alive, lo, hi) ==
  IF lo >= hi THEN <<>>
  ELSE (IF alive[lo + 1] THEN <<base[lo + 1]>> ELSE <<>>)
         \o AliveChars(base, alive, lo + 1, hi)

\* inner_text of a span: its alive inner characters, collapsed and stripped.
InnerText(base, alive, sp) ==
  Strip(CollapseSpaces(AliveChars(base, alive, sp.start + 1, sp.end - 1)))

\* A removal that rebuilds the mask from the span alone: dead inside it,
\* alive everywhere else.
KillSpanRebuilds(alive, sp) ==
  [p \in DOMAIN alive |-> ~(p - 1 >= sp.start /\ p - 1 < sp.end)]

\* A removal that leaves the two bracket characters of the span alive.
KillSpanInnerOnly(alive, sp) ==
  [p \in DOMAIN alive |->
     IF p - 1 > sp.start /\ p - 1 < sp.end - 1 THEN FALSE ELSE alive[p]]

\* alive[i] = False for i in range(sp.start, sp.end)
KillSpan(alive, sp) ==
  [p \in DOMAIN alive |-> IF p - 1 >= sp.start /\ p - 1 < sp.end THEN FALSE ELSE alive[p]]

(***************************************************************************)
(* SpecBrackets: classification of an inner text by _classify and then by  *)
(* the chain of classifier classes, and the nested harvest of a string.    *)
(***************************************************************************)

MaxWords == 2

MaxHarvestTokens == 4

ClassifyWords ==
  {<<"f","e","a","t",".">>, <<"w","i","t","h">>, <<"l","i","v","e">>,
   <<"b","y">>, <<"r","e","m","i","x">>, <<"R","e","w","o","r","k">>,
   <<"v","i","p">>, <<"m","i","x">>, <<"O","r","i","g","i","n","a","l">>,
   <<"B","i","c","e","p">>, <<"h","q">>, <<"1","2","8","k","b","p","s">>,
   <<"Z","'">>}

ExLiveAtFunkhaus ==
  <<"L","i","v","e"," ","a","t"," ","F","u","n","k","h","a","u","s">>

ExSunsetDub == <<"S","u","n","s","e","t"," ","D","u","b">>

\* "key 8A 124bpm"
ExKey8A == <<"k","e","y"," ","8","A"," ","1","2","4","b","p","m">>

\* "Live Version"
ExLiveVersion == <<"L","i","v","e"," ","V","e","r","s","i","o","n">>

\* "Bootleg by Barry"
ExBootlegByBarry ==
  <<"B","o","o","t","l","e","g"," ","b","y"," ","B","a","r","r","y">>

\* "Remix by DJ Barry B"
ExRemixByDjBarryB ==
  <<"R","e","m","i","x"," ","b","y"," ","D","J"," ","B","a","r","r","y"," ","B">>

\* "Original Mix"
ExOriginalMix == <<"O","r","i","g","i","n","a","l"," ","M","i","x">>

\* The texts classified: one to MaxWords words joined by single spaces, the
\* inner texts of the documented examples, and a text of one space.
ClassifyInputs ==
  {JoinSpace(ws) : ws \in SeqsUpTo(ClassifyWords, MaxWords) \ {<<>>}}
    \cup {ExLiveAtFunkhaus, ExSunsetDub, <<" ">>, ExKey8A, ExLiveVersion,
          ExBootlegByBarry, ExRemixByDjBarryB, ExOriginalMix}

HarvestTokens ==
  {<<"(">>, <<")">>, <<"[">>, <<"]">>, <<"a">>,
   <<"(","a",")">>, <<"[","h","q","]">>}

ExSays ==
  <<"S","a","y","s"," ","(","L","i","v","e"," ","a","t"," ","F","u","n","k",
    "h","a","u","s",")"," ","[","V","i","s","u","a","l","i","z","e","r","]">>

ExSomeText ==
  <<"s","o","m","e"," ","t","e","x","t","{","S","u","n","s","e","t"," ",
    "D","u","b"," ","(","1","2","8","k","b","p","s",")","}">>

\* "Title [¯\_(ツ)_/¯]"
ExShrug ==
  <<"T","i","t","l","e"," ","[","MACRON","\\","_","(","TSU",")","_","/","MACRON","]">>

\* "Opal (Bicep Rework)"
ExOpal ==
  <<"O","p","a","l"," ","(","B","i","c","e","p"," ","R","e","w","o","r","k",")">>

\* "Artist Barry ((featuring bobo.lici()us))"
ExArtistBarry ==
  <<"A","r","t","i","s","t"," ","B","a","r","r","y"," ","(","(","f","e","a","t",
    "u","r","i","n","g"," ","b","o","b","o",".","l","i","c","i","(",")","u","s",
    ")",")">>

\* "(Remix (VIP Mix))"
ExRemixVipMix ==
  <<"(","R","e","m","i","x"," ","(","V","I","P"," ","M","i","x",")",")">>

\* "Glue (Original Mix)"
ExGlue ==
  <<"G","l","u","e"," ","(","O","r","i","g","i","n","a","l"," ","M","i","x",")">>

\* "a [- (a)]": once "(a)" is removed the outer span holds a hyphen only.
ExDashSpan == <<"a"," ","[","-"," ","(","a",")","]">>

\* The strings harvested: up to MaxHarvestTokens tokens, and the examples.
HarvestInputs ==
  {Concat(ts) : ts \in SeqsUpTo(HarvestTokens, MaxHarvestTokens)}
    \cup {ExSays, ExSomeText, ExShrug, ExOpal, ExArtistBarry, ExRemixVipMix,
          ExDashSpan, ExGlue}

InitClassify ==
  /\ classifySt \in {[pc |-> "ready", text |-> t, result |-> None,
                      idx |-> 0, chain |-> None] : t \in ClassifyInputs}
  /\ harvestSt = Idle

InitHarvest ==
  /\ harvestSt \in {[pc |-> "scan", base |-> b, i |-> 0, stack |-> <<>>,
                     spans |-> <<>>, order |-> <<>>, k |-> 0, alive |-> <<>>,
                     harvested |-> <<>>, cleaned |-> <<>>] : b \in HarvestInputs}
  /\ classifySt = Idle

InitBrackets ==
  /\ InitClassify \/ InitHarvest
  /\ parseSt = Idle /\ dedupeSt = Idle /\ normSt = Idle /\ prefixSt = Idle
  /\ stripSt = Idle /\ callsSt = Idle

\* h = _classify(inner_text, patterns)
CallClassify ==
  /\ classifySt.pc = "ready"
  /\ classifySt' = [classifySt EXCEPT !.pc = "chain", !.idx = 1,
                                       !.result = Some(Classify(classifySt.text))]
  /\ UNCHANGED <<parseSt, dedupeSt, normSt, prefixSt, harvestSt, stripSt, callsSt>>

\* One iteration of harvest_brackets' loop
\*   for clf in self.classifiers: h = clf.classify(inner_text); if h: break
\* A loop that runs out leaves h None, and h.raw = ... then raises.
ChainTry ==
  /\ classifySt.pc = "chain"
  /\ LET h == ClassifierClassify(Classifiers[classifySt.idx], classifySt.text)
     IN classifySt' =
          IF h # None THEN [classifySt EXCEPT !.pc = "done", !.chain = h]
          ELSE IF classifySt.idx < Len(Classifiers)
                 THEN [classifySt EXCEPT !.idx = @ + 1]
                 ELSE [classifySt EXCEPT !.pc = "AttributeError"]
  /\ UNCHANGED <<parseSt, dedupeSt, normSt, prefixSt, harvestSt, stripSt, callsSt>>

\* One iteration of the loop of _find_spans_nested.
ScanChar ==
  /\ harvestSt.pc = "scan"
  /\ harvestSt.i < Len(harvestSt.base)
  /\ harvestSt' = [ScanStep(harvestSt, harvestSt.base[harvestSt.i + 1], harvestSt.i)
                     EXCEPT !.i = harvestSt.i + 1]
  /\ UNCHANGED <<parseSt, dedupeSt, normSt, prefixSt, classifySt, stripSt, callsSt>>

\* _find_spans_nested returns its spans; parse_brackets_nested sorts them
\* and sets up the alive mask.
OrderSpans ==
  /\ harvestSt.pc = "scan"
  /\ harvestSt.i = Len(harvestSt.base)
  /\ harvestSt' = [harvestSt EXCEPT
                     !.pc = "harvest",
                     !.stack = <<>>,
                     !.order = SortedSpans(harvestSt.spans, Len(harvestSt.spans)),
                     !.k = 1,
                     !.alive = [p \in 1..Len(harvestSt.base) |-> TRUE]]
  /\ UNCHANGED <<parseSt, dedupeSt, normSt, prefixSt, classifySt, stripSt, callsSt>>

\* The span the harvest loop is at, and its pruned inner text.
CurrentSpan == harvestSt.spans[harvestSt.order[harvestSt.k]]

CurrentInner == InnerText(harvestSt.base, harvestSt.alive, CurrentSpan)

\* A discard that skips the span without removing it from the alive mask.
DiscardSpanKeepsAlive ==
  /\ harvestSt.pc = "harvest"
  /\ harvestSt.k <= Len(harvestSt.order)
  /\ IsEffectivelyEmpty(CurrentInner)
  /\ harvestSt' = [harvestSt EXCEPT !.k = @ + 1]
  /\ UNCHANGED <<parseSt, dedupeSt, normSt, prefixSt, classifySt, stripSt, callsSt>>

\* An iteration of the harvest loop on a span whose inner text is
\* effectively empty: the span is removed and nothing is harvested.
DiscardSpan ==
  /\ harvestSt.pc = "harvest"
  /\ harvestSt.k <= Len(harvestSt.order)
  /\ IsEffectivelyEmpty(CurrentInner)
  /\ harvestSt' = [harvestSt EXCEPT !.k = @ + 1,
                                     !.alive = KillSpan(@, CurrentSpan)]
  /\ UNCHANGED <<parseSt, dedupeSt, normSt, prefixSt, classifySt, stripSt, callsSt>>

\* An iteration of the harvest loop on any other span: the inner text is
\* classified, the segment gets raw, text and span, and the span is removed.
HarvestSpan ==
  /\ harvestSt.pc = "harvest"
  /\ harvestSt.k <= Len(harvestSt.order)
  /\ LET sp == CurrentSpan
         inner == CurrentInner
     IN /\ ~IsEffectivelyEmpty(inner)
        /\ harvestSt' =
             [harvestSt EXCEPT
                !.k = @ + 1,
                !.harvested =
                   Append(@, [Classify(inner) EXCEPT
                                !.raw = <<sp.l>> \o inner \o <<sp.r>>,
                                !.text = inner,
                                !.span = sp]),
                !.alive = KillSpan(@, sp)]
  /\ UNCHANGED <<parseSt, dedupeSt, normSt, prefixSt, classifySt, stripSt, callsSt>>

\* After the loop: the cleaned text is what is still alive, collapsed and
\* stripped.
BuildCleaned ==
  /\ harvestSt.pc = "harvest"
  /\ harvestSt.k > Len(harvestSt.order)
  /\ harvestSt' = [harvestSt EXCEPT
                     !.pc = "done",
                     !.cleaned = Strip(CollapseSpaces(
                        AliveChars(harvestSt.base, harvestSt.alive, 0,
                                   Len(harvestSt.base))))]
  /\ UNCHANGED <<parseSt, dedupeSt, normSt, prefixSt, classifySt, stripSt, callsSt>>

NextBrackets ==
  \/ CallClassify \/ ChainTry
  \/ ScanChar \/ OrderSpans \/ DiscardSpan \/ HarvestSpan \/ BuildCleaned

SpecBrackets == InitBrackets /\ [][NextBrackets]_vars

\* Two spans share no character position.
SpansDisjoint(a, b) == a.end <= b.start \/ b.end <= a.start

\* Span a strictly contains span b.
SpanContains(a, b) == a.start < b.start /\ b.end < a.end

\* C3: any two spans returned by _find_spans_nested are disjoint or one
\* strictly contains the other, and a closer that does not match the opener
\* on top of the stack produces no span and leaves the stack unchanged.
C3_SpansProperlyNested ==
  /\ [](harvestSt.pc \in {"scan", "harvest", "done"} =>
          \A p, q \in 1..Len(harvestSt.spans) :
             p # q =>
               LET a == harvestSt.spans[p]
                   b == harvestSt.spans[q]
               IN SpansDisjoint(a, b) \/ SpanContains(a, b) \/ SpanContains(b, a))
  /\ [][(/\ harvestSt.pc = "scan"
         /\ harvestSt.i < Len(harvestSt.base)
         /\ harvestSt.base[harvestSt.i + 1] \in Closers
         /\ \/ harvestSt.stack = <<>>
            \/ harvestSt.stack[Len(harvestSt.stack)].ch
                 # OpenerOf(harvestSt.base[harvestSt.i + 1]))
        => /\ harvestSt'.stack = harvestSt.stack
           /\ harvestSt'.spans = harvestSt.spans]_vars

\* The scan is over, one span lies strictly inside another, and a closer that
\* ends no span stands inside a span: it met a different opener on top of
\* the stack.
C3_Witness ==
  /\ harvestSt.pc = "harvest"
  /\ \E p, q \in 1..Len(harvestSt.spans) :
        SpanContains(harvestSt.spans[p], harvestSt.spans[q])
  /\ \E x \in 1..Len(harvestSt.base) :
        /\ harvestSt.base[x] \in Closers
        /\ \A p \in 1..Len(harvestSt.spans) : harvestSt.spans[p].end # x
        /\ \E p \in 1..Len(harvestSt.spans) :
              harvestSt.spans[p].start < x - 1 /\ x < harvestSt.spans[p].end

\* C4, as stated: no two harvested segments' spans share a character
\* position of the original string.
C4_HarvestedSpansNonOverlapping ==
  harvestSt.pc = "done" =>
    \A p, q \in 1..Len(harvestSt.harvested) :
       p # q => SpansDisjoint(harvestSt.harvested[p].span,
                              harvestSt.harvested[q].span)

\* C4, amended: any two harvested segments' spans are disjoint or one strictly
\* contains the other (a bracket nested in a harvested bracket is harvested
\* as well, so spans may overlap by nesting but never cross).
C4_HarvestedSpansDisjointOrNested ==
  harvestSt.pc = "done" =>
    \A p, q \in 1..Len(harvestSt.harvested) :
       p # q =>
         LET a == harvestSt.harvested[p].span
             b == harvestSt.harvested[q].span
         IN SpansDisjoint(a, b) \/ SpanContains(a, b) \/ SpanContains(b, a)

\* A finished harvest with two segments, the bracket of the first inside the
\* bracket of the second.
C4_Witness ==
  /\ harvestSt.pc = "done"
  /\ \E p, q \in 1..Len(harvestSt.harvested) :
        /\ p < q
        /\ SpanContains(harvestSt.harvested[q].span, harvestSt.harvested[p].span)

\* The types of Harvested.type.
DefinedTypes == {"version", "remix", "feat", "live", "noise", "unknown"}

\* C5: classification is total: _classify and the chain of classifier
\* classes each return exactly one segment of a defined type for every
\* non-empty inner text, never nothing and never an error; and in
\* parse_brackets_nested every span whose pruned inner text is not
\* effectively empty adds exactly one segment, its own.
C5_ClassificationTotal ==
  /\ [](/\ classifySt.pc # "AttributeError"
        /\ classifySt.pc \in {"chain", "done"} =>
             /\ classifySt.result # None
             /\ classifySt.result[1].type \in DefinedTypes
        /\ classifySt.pc = "done" =>
             /\ classifySt.chain # None
             /\ classifySt.chain[1].type \in DefinedTypes)
  /\ [][(/\ harvestSt.pc = "harvest"
         /\ harvestSt.k <= Len(harvestSt.order)
         /\ ~IsEffectivelyEmpty(CurrentInner))
        => /\ Len(harvestSt'.harvested) = Len(harvestSt.harvested) + 1
           /\ SubSeq(harvestSt'.harvested, 1, Len(harvestSt.harvested))
                = harvestSt.harvested
           /\ harvestSt'.harvested[Len(harvestSt'.harvested)].span = CurrentSpan
           /\ harvestSt'.harvested[Len(harvestSt'.harvested)].type \in DefinedTypes]_vars

\* A text no pattern matches went through the whole chain and came out of
\* UnknownClassifier, and out of _classify, as unknown.
C5_Witness ==
  /\ classifySt.pc = "done"
  /\ classifySt.idx = Len(Classifiers)
  /\ classifySt.chain[1].type = "unknown"
  /\ classifySt.result[1].type = "unknown"

\* Whether each group of rules of _classify matches the stripped text t on
\* its own, whatever the other groups do.
FeatMatches(t) == FeatLeading(t).ok \/ FeatTrailing(t).ok

LiveMatches(t) == LiveSearch(t)

VersionMatches(t) == ClassifyVersion(t) # None

NoiseMatches(t) == NoiseFull(t) \/ NoiseSearch(t)

\* The types a segment may have when classifier number k of the order Feat,
\* Live, Remix/Version, Noise, Unknown is the one that decided it.
TypesOf(k) ==
  CASE k = 1 -> {"feat"}
    [] k = 2 -> {"live"}
    [] k = 3 -> {"version", "remix"}
    [] k = 4 -> {"noise"}
    [] k = 5 -> {"unknown"}

\* The number of the first group of rules of _classify that matches the
\* stripped text t, 5 when none of the four does.
FirstMatching(t) ==
  IF FeatMatches(t) THEN 1
  ELSE IF LiveMatches(t) THEN 2
  ELSE IF VersionMatches(t) THEN 3
  ELSE IF NoiseMatches(t) THEN 4
  ELSE 5

\* C6: the classifiers are tried in the order Feat, Live, Remix/Version,
\* Noise, Unknown and the first that matches decides the type: a Feat match
\* gives feat whatever else matches, a Live match beats Remix/Version and
\* Noise, a Remix/Version match beats Noise, and unknown comes out only when
\* none of the four matches; for _classify (checked when it has returned)
\* and for the chain of classes (checked when the chain has stopped: every
\* classifier before the deciding one gave nothing).
C6_FirstMatchDecides ==
  /\ (classifySt.pc = "chain" /\ classifySt.idx = 1) =>
       classifySt.result[1].type \in TypesOf(FirstMatching(Strip(classifySt.text)))
  /\ classifySt.pc = "done" =>
       /\ Classifiers = <<"feat", "live", "remix", "noise", "unknown">>
       /\ classifySt.chain[1].type \in TypesOf(classifySt.idx)
       /\ classifySt.chain = ClassifierClassify(Classifiers[classifySt.idx],
                                                classifySt.text)
       /\ \A j \in 1..(classifySt.idx - 1) :
             ClassifierClassify(Classifiers[j], classifySt.text) = None

\* A classified text that the live rule and the version rules both match,
\* in _classify and in the classes, and the feat rules do not: it came out
\* live both ways.
C6_Witness ==
  /\ classifySt.pc = "done"
  /\ LET t == Strip(classifySt.text)
     IN ~FeatMatches(t) /\ LiveMatches(t) /\ VersionMatches(t)
  /\ RemixClassifierClassify(classifySt.text) # None
  /\ classifySt.result[1].type = "live"
  /\ classifySt.chain[1].type = "live"

\* C7: parse_brackets_nested processes the spans by descending depth and,
\* at equal depth, by ascending start, and the segments come back in that
\* order: "Says (Live at Funkhaus) [Visualizer]" gives "Says" and
\* [live, noise]; "some text{Sunset Dub (128kbps)}" gives the inner noise
\* segment before the outer remix byline.
C7_HarvestOrder ==
  /\ harvestSt.pc \in {"harvest", "done"} =>
       /\ Len(harvestSt.order) = Len(harvestSt.spans)
       /\ \A p, q \in 1..Len(harvestSt.order) :
            p < q =>
              LET a == harvestSt.spans[harvestSt.order[p]]
                  b == harvestSt.spans[harvestSt.order[q]]
              IN a.depth > b.depth \/ (a.depth = b.depth /\ a.start < b.start)
       /\ \A p, q \in 1..Len(harvestSt.harvested) :
            p < q =>
              LET a == harvestSt.harvested[p].span
                  b == harvestSt.harvested[q].span
              IN a.depth > b.depth \/ (a.depth = b.depth /\ a.start < b.start)
       /\ \A p \in 1..Len(harvestSt.harvested) :
            \E j \in 1..(harvestSt.k - 1) :
               harvestSt.spans[harvestSt.order[j]] = harvestSt.harvested[p].span
  /\ (harvestSt.pc = "done" /\ harvestSt.base = ExSays) =>
       /\ harvestSt.cleaned = <<"S","a","y","s">>
       /\ [p \in 1..Len(harvestSt.harvested) |-> harvestSt.harvested[p].type]
            = <<"live", "noise">>
  /\ (harvestSt.pc = "done" /\ harvestSt.base = ExSomeText) =>
       /\ [p \in 1..Len(harvestSt.harvested) |-> harvestSt.harvested[p].type]
            = <<"noise", "remix">>
       /\ harvestSt.harvested[1].span.depth = 2
       /\ harvestSt.harvested[2].span.depth = 1

\* A finished harvest whose segments are a deeper bracket that starts later
\* and then a shallower one that starts earlier, and one whose two segments
\* are at the same depth.
C7_Witness ==
  /\ harvestSt.pc = "done"
  /\ Len(harvestSt.harvested) = 3
  /\ harvestSt.harvested[1].span.depth > harvestSt.harvested[3].span.depth
  /\ harvestSt.harvested[1].span.start > harvestSt.harvested[3].span.start
  /\ harvestSt.harvested[1].span.depth = harvestSt.harvested[2].span.depth

(***************************************************************************)
(* Step 1: strip_path_and_extension                                        *)
(***************************************************************************)

\* ParserConfig.audio_extensions
AudioExtensions ==
  << <<".","m","p","3">>, <<".","f","l","a","c">>, <<".","w","a","v">>,
     <<".","m","4","a">>, <<".","a","a","c">>, <<".","o","g","g">>,
     <<".","a","i","f","f">>, <<".","a","l","a","c">>, <<".","w","m","a">> >>

\* {ext.lstrip(".").lower() for ext in audio_extensions}; the order of the
\* alternation does not matter here, since no extension holds a '.' and the
\* pattern is anchored at the end.
ExtsCore ==
  {Lower(Slice(AudioExtensions[k], SkipSet(AudioExtensions[k], 1, {"."}),
               Len(AudioExtensions[k]))) : k \in 1..Len(AudioExtensions)}

\* ext_re.search(w) with ext_re = \s*\.(exts_alt)\s*$ under re.IGNORECASE:
\* the leftmost start i from which the greedy \s*, a '.', one extension and
\* whitespace up to the end match.  start is the position of the first
\* matched character, ext is m.group(1).
ExtSearch(w) ==
  LET At(i) ==
        LET j == SkipSpace(w, i)
            es == {e \in ExtsCore :
                     /\ LiteralAt(w, j + 1, e)
                     /\ SkipSpace(w, j + 1 + Len(e)) > Len(w)}
        IN IF j <= Len(w) /\ w[j] = "." /\ es # {}
             THEN [ok |-> TRUE, start |-> i,
                   ext |-> SubSeq(w, j + 1, j + Len(CHOOSE e \in es : TRUE))]
             ELSE NoMatch
  IN FirstOk([i \in 1..Len(w) |-> At(i)])

\* A strip_path_and_extension whose '/' is a path separator in every input.
AllowForwardAlways(s) == TRUE

\* allow_forward: any of has_backslash, looks_win_drive, looks_unc,
\* looks_url, has_cd_disc, multi_seps.
AllowForward(s) ==
  LET Seps == {"/", "\\"}
      IsSep(i) == i >= 1 /\ i <= Len(s) /\ s[i] \in Seps
      has_backslash == \E i \in 1..Len(s) : s[i] = "\\"
      slash_count == Cardinality({i \in 1..Len(s) : s[i] \in Seps})
      \* (?i)^[a-z]:[\\/]
      looks_win_drive ==
        Len(s) >= 3 /\ IsAlpha(s[1]) /\ s[2] = ":" /\ IsSep(3)
      \* ^(?:[\\/]{2})[^\\/]+[\\/][^\\/]+
      looks_unc ==
        /\ IsSep(1) /\ IsSep(2)
        /\ \E j \in 4..(Len(s) - 1) :
              /\ IsSep(j) /\ ~IsSep(j + 1)
              /\ \A k \in 3..(j - 1) : ~IsSep(k)
      \* (?i)^[a-z][a-z0-9+.\-]*://
      looks_url ==
        /\ Len(s) >= 1 /\ IsAlpha(s[1])
        /\ \E j \in 2..Len(s) :
              /\ LiteralAt(s, j, <<":", "/", "/">>)
              /\ \A k \in 2..(j - 1) :
                    IsAlpha(s[k]) \/ IsDigit(s[k]) \/ s[k] \in {"+", ".", "-"}
      \* (?i)(?:^|[\\/])(cd|disc)\s*\d+\b
      has_cd_disc ==
        \E i \in 1..Len(s) :
           /\ i = 1 \/ IsSep(i - 1)
           /\ \E lit \in {<<"c","d">>, <<"d","i","s","c">>} :
                /\ LiteralAt(s, i, lit)
                /\ LET d == SkipSpace(s, i + Len(lit))
                       e == SkipDigits(s, d)
                   IN e > d /\ WordBoundary(s, e)
      multi_seps == slash_count >= 2
  IN \/ has_backslash \/ looks_win_drive \/ looks_unc
     \/ looks_url \/ has_cd_disc \/ multi_seps

\* A basename cut at the last forward slash only.
BasenameForwardOnly(s) ==
  LET Seps == {"/", "\\"}
      allow == AllowForward(s)
      s_stripped == IF allow THEN Slice(s, 1, SkipSetBack(s, Len(s), Seps)) ELSE s
      cuts == {i \in 1..Len(s_stripped) : allow /\ s_stripped[i] = "/"}
      cut == IF cuts = {} THEN 0 ELSE CHOOSE i \in cuts : \A j \in cuts : j <= i
  IN Slice(s_stripped, cut + 1, Len(s_stripped))

\* basename: with allow_forward, the text after the last separator of
\* s.rstrip("/\\"); otherwise s (no backslash is present then, so
\* last_backslash = last_forward = -1).
Basename(s) ==
  LET Seps == {"/", "\\"}
      allow == AllowForward(s)
      s_stripped == IF allow THEN Slice(s, 1, SkipSetBack(s, Len(s), Seps)) ELSE s
      cuts == {i \in 1..Len(s_stripped) :
                 \/ s_stripped[i] = "\\"
                 \/ allow /\ s_stripped[i] = "/"}
      cut == IF cuts = {} THEN 0 ELSE CHOOSE i \in cuts : \A j \in cuts : j <= i
  IN Slice(s_stripped, cut + 1, Len(s_stripped))

\* A loop that reports the extension it removed last.
PrimaryExtOverwritten(primary_ext, m) == Some(Lower(m.ext))

\* if primary_ext is None: primary_ext = m.group(1).lower()
PrimaryExt(primary_ext, m) ==
  IF primary_ext = None THEN Some(Lower(m.ext)) ELSE primary_ext

MaxStripTokens == 4

StripTokens ==
  {<<"a">>, <<"/">>, <<"\\">>, <<"C",":">>, <<"C","D","2">>,
   <<".","m","p","3">>, <<".","W","A","V">>, <<" ">>}

\* "name.mp3.wav"
ExNameMp3Wav == <<"n","a","m","e",".","m","p","3",".","w","a","v">>

\* "AC/DC"
ExAcDc == <<"A","C","/","D","C">>

\* "//srv/share/AC.Mp3 "
ExUncShare ==
  <<"/","/","s","r","v","/","s","h","a","r","e","/","A","C",".","M","p","3"," ">>

\* "file://x/AC.ogg"
ExUrl == <<"f","i","l","e",":","/","/","x","/","A","C",".","o","g","g">>

\* "Disc 2/07 .flac .WAV"
ExDiscFolder ==
  <<"D","i","s","c"," ","2","/","0","7"," ",".","f","l","a","c"," ",".","W","A","V">>

\* "NoExt Or Weird"
ExNoExt == <<"N","o","E","x","t"," ","O","r"," ","W","e","i","r","d">>

StripInputs ==
  {Concat(ts) : ts \in SeqsUpTo(StripTokens, MaxStripTokens)}
    \cup {ExNameMp3Wav, ExAcDc, ExUncShare, ExUrl, ExDiscFolder, ExNoExt}

\* A call strip_path_and_extension(s, audio_extensions) about to run.
InitStrip ==
  /\ stripSt \in {[pc |-> "ready", s |-> s, working |-> <<>>,
                   primary_ext |-> None] : s \in StripInputs}
  /\ parseSt = Idle /\ dedupeSt = Idle /\ normSt = Idle /\ prefixSt = Idle
  /\ harvestSt = Idle /\ classifySt = Idle /\ callsSt = Idle

\* Lines 21-67: the empty string is returned at once, with False in the
\* place of the extension; otherwise the basename is cut out and the peeling
\* loop is entered with working = basename, primary_ext = None.
CutPath ==
  /\ stripSt.pc = "ready"
  /\ stripSt' =
       IF stripSt.s = <<>>
         THEN [stripSt EXCEPT !.pc = "done", !.primary_ext = Some(FALSE)]
         ELSE [stripSt EXCEPT !.pc = "peel", !.working = Basename(stripSt.s)]
  /\ UNCHANGED <<parseSt, dedupeSt, normSt, prefixSt, harvestSt, classifySt,
               callsSt>>

\* One iteration of the while loop in which ext_re matches: the extension
\* and the whitespace before it are cut off and the rest is rstripped.
PeelExtension ==
  /\ stripSt.pc = "peel"
  /\ LET m == ExtSearch(stripSt.working)
     IN /\ m.ok
        /\ stripSt' =
             [stripSt EXCEPT
                !.primary_ext = PrimaryExt(@, m),
                !.working = RStrip(Slice(stripSt.working, 1, m.start - 1))]
  /\ UNCHANGED <<parseSt, dedupeSt, normSt, prefixSt, harvestSt, classifySt,
               callsSt>>

\* The iteration in which ext_re does not match: break, return
\* (working, primary_ext).
StripReturn ==
  /\ stripSt.pc = "peel"
  /\ ~ExtSearch(stripSt.working).ok
  /\ stripSt' = [stripSt EXCEPT !.pc = "done"]
  /\ UNCHANGED <<parseSt, dedupeSt, normSt, prefixSt, harvestSt, classifySt,
               callsSt>>

NextStrip == CutPath \/ PeelExtension \/ StripReturn

SpecStrip == InitStrip /\ [][NextStrip]_vars

\* The known extensions e such that w, without its trailing whitespace,
\* ends in '.' followed by e in any letter case.
TrailingExtensions(w) ==
  LET t == Lower(RStrip(w))
  IN {e \in ExtsCore :
        /\ Len(t) >= Len(e) + 1
        /\ SubSeq(t, Len(t) - Len(e), Len(t)) = <<".">> \o e}

\* Whether t is made of '.'+known-extension suffixes and whitespace only.
RECURSIVE OnlyExtensionSuffixes(_)
OnlyExtensionSuffixes(t) ==
  \/ RStrip(t) = <<>>
  \/ \E e \in TrailingExtensions(t) :
        OnlyExtensionSuffixes(SubSeq(t, 1, Len(RStrip(t)) - Len(e) - 1))

\* C11: strip_path_and_extension removes every trailing '.'+known-extension
\* suffix, in any letter case and with the whitespace before it, from the
\* basename: what it returns is the basename without a tail made of such
\* suffixes only, and does not end in a known extension.  The extension it
\* reports is the first one removed, lowercased, which is the last extension
\* of the basename; it reports none when the basename ends in none.
C11_PeelsAllReportsFirst ==
  /\ (stripSt.pc = "peel" /\ stripSt.primary_ext # None) =>
        stripSt.primary_ext[1] \in TrailingExtensions(Basename(stripSt.s))
  /\ (stripSt.pc = "done" /\ stripSt.s # <<>>) =>
        LET base == Basename(stripSt.s)
            w == stripSt.working
        IN /\ TrailingExtensions(w) = {}
           /\ Len(w) <= Len(base) /\ w = SubSeq(base, 1, Len(w))
           /\ w = RStrip(w) \/ w = base
           /\ OnlyExtensionSuffixes(SubSeq(base, Len(w) + 1, Len(base)))
              \/ w = base
           /\ IF TrailingExtensions(base) = {}
                THEN stripSt.primary_ext = None /\ w = base
                ELSE /\ stripSt.primary_ext # None
                     /\ stripSt.primary_ext[1] \in TrailingExtensions(base)
                     /\ w # base
           /\ stripSt.s = ExNameMp3Wav =>
                /\ w = <<"n","a","m","e">>
                /\ stripSt.primary_ext = Some(<<"w","a","v">>)

\* A call that removed two extensions of different letter case and spacing:
\* "Disc 2/07 .flac .WAV" gives ("07", "wav").
C11_Witness ==
  /\ stripSt.pc = "done"
  /\ stripSt.s = ExDiscFolder
  /\ stripSt.working = <<"0","7">>
  /\ stripSt.primary_ext = Some(<<"w","a","v">>)

\* The number of characters of s that are in cs.
CountOf(s, cs) == Cardinality({i \in 1..Len(s) : s[i] \in cs})

\* The strong signals as the documentation lists them: a drive prefix, a
\* double-separator prefix, a URL scheme, a CD<n> or Disc <n> token with a
\* separator (or the start of the string) before it or a separator after
\* it, two or more separators, a backslash.
StrongSignal(s) ==
  LET Seps == {"/", "\\"}
      SepAt(i) == i >= 1 /\ i <= Len(s) /\ s[i] \in Seps
      DiscTokenEnds(i) ==
        {e \in (i + 1)..(Len(s) + 1) :
           \E lit \in {<<"c","d">>, <<"d","i","s","c">>} :
              /\ LiteralAt(s, i, lit)
              /\ \E d \in (i + Len(lit))..(e - 1) :
                    /\ \A k \in (i + Len(lit))..(d - 1) : IsSpace(s[k])
                    /\ \A k \in d..(e - 1) : IsDigit(s[k])}
  IN \/ CountOf(s, {"\\"}) >= 1
     \/ CountOf(s, Seps) >= 2
     \/ Len(s) >= 3 /\ IsAlpha(s[1]) /\ s[2] = ":" /\ SepAt(3)
     \/ SepAt(1) /\ SepAt(2)
     \/ \E j \in 2..Len(s) : IsAlpha(s[1]) /\ LiteralAt(s, j, <<":", "/", "/">>)
     \/ \E i \in 1..Len(s) : \E e \in DiscTokenEnds(i) :
           i = 1 \/ SepAt(i - 1) \/ SepAt(e)

C13_ShrugIsOneUnknown ==
  (harvestSt.pc = "done" /\ harvestSt.base = ExShrug) =>
     /\ harvestSt.cleaned = <<"T","i","t","l","e">>
     /\ Len(harvestSt.harvested) = 1
     /\ harvestSt.harvested[1].type = "unknown"
     /\ harvestSt.harvested[1].text =
          <<"MACRON","\\","_","(","TSU",")","_","/","MACRON">>

\* Whether name holds a version or live indicator as a substring, in any
\* letter case.
HoldsVersionOrLivePhrase(name) ==
  \E ind \in RangeOf(VersionIndicators) \cup RangeOf(LiveIndicators) :
     \E i \in 1..(Len(name) - Len(ind) + 1) :
        Lower(SubSeq(name, i, i + Len(ind) - 1)) = ind

\* The splits of t into '<name> <version-phrase>': the positions a of a
\* space such that what follows is a known version phrase, the longest one
\* that ends t, and what precedes is a name without stray punctuation at its
\* ends that holds no version or live phrase.
NamePhraseSplits(t) ==
  {a \in 2..(Len(t) - 1) :
     /\ t[a] = " "
     /\ VersionOnly(SubSeq(t, a + 1, Len(t)))
     /\ \A b \in 2..(a - 1) : ~(t[b] = " " /\ VersionOnly(SubSeq(t, b + 1, Len(t))))
     /\ LET name == SubSeq(t, 1, a - 1)
        IN /\ name = TidyName(name) /\ name = Strip(name)
           /\ ~HoldsVersionOrLivePhrase(name)}

\* Whether a rule that comes before the bare name+type rule matches t: feat,
\* live, original mix, version-only or one of the three bylines.
EarlierRuleMatches(t) ==
  \/ FeatMatches(t) \/ LiveMatches(t) \/ OriginalMixSearch(t)
  \/ VersionOnly(t) \/ BylineMatch(t).ok

\* C14: harvesting "Opal (Bicep Rework)" gives the cleaned text "Opal" and
\* exactly one segment, of type remix with artist "Bicep" and version
\* "Rework"; and every inner text '<name> <version-phrase>' that no earlier
\* rule matches and whose name holds no version or live phrase is typed
\* remix with artist = name and version = the phrase with every word
\* capitalized, by _classify and by the classifier chain.
C14_BareNameTypeByline ==
  /\ (harvestSt.pc = "done" /\ harvestSt.base = ExOpal) =>
        /\ harvestSt.cleaned = <<"O","p","a","l">>
        /\ Len(harvestSt.harvested) = 1
        /\ harvestSt.harvested[1].type = "remix"
        /\ harvestSt.harvested[1].artist = Some(<<"B","i","c","e","p">>)
        /\ harvestSt.harvested[1].version = Some(<<"R","e","w","o","r","k">>)
  /\ classifySt.pc = "done" =>
        LET t == Strip(classifySt.text)
        IN \A a \in NamePhraseSplits(t) :
              ~EarlierRuleMatches(t) =>
                 \A seg \in {classifySt.result[1], classifySt.chain[1]} :
                    /\ seg.type = "remix"
                    /\ seg.artist = Some(SubSeq(t, 1, a - 1))
                    /\ seg.version = Some(TitleWords(SubSeq(t, a + 1, Len(t))))

\* Both implementations have classified "Bicep Rework", the inner text of
\* the example, which splits after "Bicep" and is matched by no earlier rule.
C14_Witness ==
  /\ classifySt.pc = "done"
  /\ classifySt.text = <<"B","i","c","e","p"," ","R","e","w","o","r","k">>
  /\ NamePhraseSplits(classifySt.text) = {6}
  /\ ~EarlierRuleMatches(classifySt.text)
  /\ classifySt.result[1].artist = Some(<<"B","i","c","e","p">>)
  /\ classifySt.chain[1].version = Some(<<"R","e","w","o","r","k">>)

\* The positions of the characters of s that are neither whitespace nor a
\* hyphen, in order.  The normalizer never adds, drops or reorders such
\* characters, so the k-th of them in the input is the k-th in the output.
SolidPositions(s) ==
  LET idx == [i \in 1..Len(s) |-> i]
  IN SelectSeq(idx, LAMBDA i : ~IsSpace(s[i]) /\ s[i] # "-")

\* What s holds between its k-th and its (k+1)-th solid character.
BetweenSolids(s, k) ==
  LET p == SolidPositions(s) IN Slice(s, p[k] + 1, p[k + 1] - 1)

\* The input as it is read: NBSP is whitespace and every dash a hyphen.
NormInputRead == TranslateDashes(Nfkc(normSt.input))

\* C15 as stated: hyphens that stand between two non-whitespace characters
\* in the input, a bracket, '~' or '|' counting as such a character, still
\* have no whitespace next to them in the output.
C15_GluedHyphenNeverSplit ==
  normSt.pc = "once" =>
     LET u == NormInputRead
         out == normSt.out
     IN \A k \in 1..(Len(SolidPositions(u)) - 1) :
           LET b == BetweenSolids(u, k)
           IN (b # <<>> /\ \A j \in 1..Len(b) : b[j] = "-") =>
                 LET c == BetweenSolids(out, k)
                 IN c # <<>> /\ \A j \in 1..Len(c) : c[j] = "-"

\* C15, amended: a single hyphen that stands in the input between two
\* characters that are neither whitespace nor a hyphen, with no '~' or '|'
\* next to it and no opening bracket after it, stands between the same two
\* characters in the output, with no whitespace next to it: "M-zine" and
\* "Artist_Name-Title__Live-Version.mp3" come out as they went in.
C15_GluedHyphenKept ==
  normSt.pc = "once" =>
     LET u == NormInputRead
         out == normSt.out
         p == SolidPositions(u)
         q == SolidPositions(out)
     IN /\ Len(q) = Len(p)
        /\ \A k \in 1..Len(p) : out[q[k]] = u[p[k]]
        /\ \A k \in 1..(Len(p) - 1) :
              (/\ BetweenSolids(u, k) = <<"-">>
               /\ u[p[k]] \notin {"~", "|"}
               /\ u[p[k + 1]] \notin {"~", "|", "(", "[", "{"}) =>
                 BetweenSolids(out, k) = <<"-">>
        /\ normSt.input \in {ExMzine, ExArtistNameTitle} => out = normSt.input

\* An input the normalizer changes, with a hyphen glued between a closing
\* bracket and a letter that is kept as it is: ") )-a" gives "))-a".
C15_Witness ==
  /\ normSt.pc = "once"
  /\ normSt.out # NormInputRead
  /\ \E k \in 1..(Len(SolidPositions(NormInputRead)) - 1) :
        /\ BetweenSolids(NormInputRead, k) = <<"-">>
        /\ NormInputRead[SolidPositions(NormInputRead)[k]] = ")"
        /\ NormInputRead[SolidPositions(NormInputRead)[k + 1]] = "a"
        /\ BetweenSolids(normSt.out, k) = <<"-">>

\* C16: an inner text in which a configured noise phrase or technical
\* pattern matches, as the whole text or as a word-bounded part of it, is
\* typed noise by the noise rule of _classify (no earlier rule having taken
\* it) and by NoiseClassifier.classify (when the chain gets to it);
\* "key 8A 124bpm" is noise for both.
C16_NoiseWholeOrPart ==
  classifySt.pc = "done" =>
     LET t == Strip(classifySt.text)
     IN NoiseMatches(t) =>
          /\ classifySt.result[1].type # "unknown"
          /\ FirstMatching(t) = 4 => classifySt.result[1].type = "noise"
          /\ NoiseClassifierClassify(classifySt.text) # None
          /\ classifySt.idx >= 4 => classifySt.chain[1].type = "noise"
          /\ classifySt.text = ExKey8A =>
                /\ classifySt.result[1].type = "noise"
                /\ classifySt.chain[1].type = "noise"

\* C17: the bare name+type rule is rejected whenever the name it extracted
\* holds a known version or live phrase in any letter case, by
\* RemixClassifier.classify on its own and by _classify: when the rule is
\* reached (no earlier rule matches) with such a name, no remix segment comes
\* out, and "Live Version" never gives a remix byline with artist "Live".
C17_GuardRejectsPhraseNames ==
  classifySt.pc = "done" =>
     LET t == Strip(classifySt.text)
         m == NameType(t)
         alone == RemixClassifierClassify(classifySt.text)
     IN /\ (/\ m.ok /\ ~VersionOnly(t) /\ ~BylineMatch(t).ok
            /\ HoldsVersionOrLivePhrase(Strip(m.name))) =>
               /\ alone = None
               /\ ~(FeatMatches(t) \/ LiveMatches(t) \/ OriginalMixSearch(t)) =>
                     classifySt.result[1].type # "remix"
        /\ classifySt.text = ExLiveVersion =>
               /\ classifySt.result[1].type # "remix"
               /\ alone = None \/ alone[1].artist # Some(<<"L","i","v","e">>)

\* The text is empty or holds only whitespace and separator characters.
OnlySeparators(text) ==
  \A k \in 1..Len(text) :
     IsSpace(text[k]) \/ text[k] \in {"-", "ENDASH", "EMDASH", "_", "/", "|",
                                      ":", ";", ",", "."}

\* C18: an iteration of the harvest loop on a span whose pruned inner text is
\* empty or separators only appends no segment and leaves every position of
\* the span dead; "Artist Barry ((featuring bobo.lici()us))" ends with the
\* cleaned text "Artist Barry" and the single segment of type feat.
C18_EmptySpanDiscarded ==
  [][/\ (harvestSt.pc = "harvest" /\ harvestSt'.pc = "harvest"
           /\ OnlySeparators(CurrentInner)) =>
          /\ harvestSt'.harvested = harvestSt.harvested
          /\ harvestSt'.k = harvestSt.k + 1
          /\ \A i \in CurrentSpan.start..(CurrentSpan.end - 1) :
                ~harvestSt'.alive[i + 1]
     /\ (harvestSt'.pc = "done" /\ harvestSt'.base = ExArtistBarry) =>
          /\ harvestSt'.cleaned = <<"A","r","t","i","s","t"," ","B","a","r","r","y">>
          /\ Len(harvestSt'.harvested) = 1
          /\ harvestSt'.harvested[1].type = "feat"]_vars

\* The loop has just discarded the separator-only outer span of "a [- (a)]":
\* the span is dead and only the segment of "(a)" was harvested.
C18_Witness ==
  /\ harvestSt.pc = "harvest"
  /\ harvestSt.base = ExDashSpan
  /\ harvestSt.k = 3
  /\ Len(harvestSt.harvested) = 1
  /\ \A i \in 2..8 : ~harvestSt.alive[i + 1]

\* C19: the cleaned text returned by parse_brackets_nested is never longer
\* than the text it was given.
C19_CleanedNoLonger ==
  harvestSt.pc = "done" => Len(harvestSt.cleaned) <= Len(harvestSt.base)

\* A harvest that removed bracket spans and returned a cleaned text that is
\* not empty and strictly shorter than its input.
C19_Witness ==
  /\ harvestSt.pc = "done"
  /\ harvestSt.spans # <<>>
  /\ harvestSt.cleaned # <<>>
  /\ Len(harvestSt.cleaned) < Len(harvestSt.base)

\* The characters of base strictly inside span sp that lie in no span
\* strictly contained in sp, in order.
RECURSIVE OwnChars(_, _, _, _)
OwnChars(base, spans, sp, i) ==
  IF i >= sp.end - 1 THEN <<>>
  ELSE (IF \E n \in 1..Len(spans) :
              /\ SpanContains(sp, spans[n])
              /\ spans[n].start <= i /\ i < spans[n].end
          THEN <<>> ELSE <<base[i + 1]>>)
         \o OwnChars(base, spans, sp, i + 1)

\* C20: when the harvest loop is at a span, every span strictly contained in
\* it was processed earlier and all of its positions are dead, so the inner
\* text classified holds the span's own characters only; for
\* "(Remix (VIP Mix))" the text "VIP Mix" is classified first and the outer
\* span is classified on "Remix".
C20_ChildrenRemovedFirst ==
  /\ (harvestSt.pc = "harvest" /\ harvestSt.k <= Len(harvestSt.order)) =>
        /\ \A j \in 1..Len(harvestSt.order) :
              SpanContains(CurrentSpan, harvestSt.spans[harvestSt.order[j]]) =>
                 /\ j < harvestSt.k
                 /\ \A i \in harvestSt.spans[harvestSt.order[j]].start
                               ..(harvestSt.spans[harvestSt.order[j]].end - 1) :
                       ~harvestSt.alive[i + 1]
        /\ CurrentInner =
             Strip(CollapseSpaces(OwnChars(harvestSt.base, harvestSt.spans,
                                           CurrentSpan, CurrentSpan.start + 1)))
  /\ (harvestSt.pc = "done" /\ harvestSt.base = ExRemixVipMix) =>
        /\ Len(harvestSt.harvested) = 2
        /\ harvestSt.harvested[1].text = <<"V","I","P"," ","M","i","x">>
        /\ harvestSt.harvested[2].text = <<"R","e","m","i","x">>
        /\ harvestSt.harvested[2].span.start = 0

\* The loop is at the outer span of "(Remix (VIP Mix))": the nested span was
\* harvested on "VIP Mix" and the outer inner text is now "Remix".
C20_Witness ==
  /\ harvestSt.pc = "harvest"
  /\ harvestSt.base = ExRemixVipMix
  /\ harvestSt.k = 2
  /\ harvestSt.harvested[1].text = <<"V","I","P"," ","M","i","x">>
  /\ CurrentInner = <<"R","e","m","i","x">>

\* C21: the alive mask of parse_brackets_nested has one entry per character
\* of the input, starts all true, and no step of the harvest sets a position
\* that is dead back to alive.
C21_AliveMonotonic ==
  [][/\ (harvestSt.pc = "scan" /\ harvestSt'.pc = "harvest") =>
          /\ Len(harvestSt'.alive) = Len(harvestSt.base)
          /\ \A p \in 1..Len(harvestSt.base) : harvestSt'.alive[p]
     /\ harvestSt.pc \in {"harvest", "done"} =>
          /\ harvestSt'.base = harvestSt.base
          /\ Len(harvestSt'.alive) = Len(harvestSt.base)
          /\ \A p \in 1..Len(harvestSt.base) :
                ~harvestSt.alive[p] => ~harvestSt'.alive[p]]_vars

\* The harvest is over after two sibling spans were removed one after the
\* other: the positions of the first are still dead and a position outside
\* both is still alive.
C21_Witness ==
  /\ harvestSt.pc = "done"
  /\ Len(harvestSt.order) >= 2
  /\ \E a, b \in 1..Len(harvestSt.spans) :
        /\ harvestSt.spans[a].end <= harvestSt.spans[b].start
        /\ \A i \in harvestSt.spans[a].start..(harvestSt.spans[b].end - 1) :
              (i < harvestSt.spans[a].end \/ i >= harvestSt.spans[b].start)
                 => ~harvestSt.alive[i + 1]
  /\ \E p \in 1..Len(harvestSt.base) : harvestSt.alive[p]

\* Sequence t is what is left of s after a non-empty prefix is cut off.
IsProperSuffix(t, s) ==
  Len(t) < Len(s) /\ t = SubSeq(s, Len(s) - Len(t) + 1, Len(s))

\* "02-T": what is left of "1-02-1-02-T" after three passes.
ExFourPrefixesLeft == <<"0","2","-","T">>

\* C22: clean_album_prefix returns; it makes at most max_passes passes and
\* reports passes <= max_passes; a pass that matches removes the match of one
\* pattern (and the whitespace after it) and counts one pass; the first pass
\* in which no pattern matches ends the loop with the text as it is; after
\* max_passes passes the loop ends even though a prefix is left, so
\* "1-02-1-02-T" comes back as "02-T" with passes = 3.
C22_PrefixTerminates ==
  /\ <>(prefixSt.pc = "done")
  /\ [](prefixSt.passes <= MaxPasses)
  /\ [][prefixSt.pc = "loop" =>
          LET m == FirstPrefixMatch(prefixSt.working)
          IN IF m.ok /\ prefixSt.passes < MaxPasses
               THEN /\ prefixSt'.pc = "loop"
                    /\ prefixSt'.passes = prefixSt.passes + 1
                    /\ IsProperSuffix(prefixSt'.working, prefixSt.working)
                    /\ prefixSt'.working =
                         LStrip(SubSeq(prefixSt.working, m.end,
                                       Len(prefixSt.working)))
               ELSE /\ prefixSt'.pc = "done"
                    /\ prefixSt'.passes = prefixSt.passes
                    /\ prefixSt'.working = prefixSt.working]_vars
  /\ [](prefixSt.pc = "done" /\ prefixSt.input = ExFourPrefixes =>
          /\ prefixSt.working = ExFourPrefixesLeft
          /\ prefixSt.passes = MaxPasses)

\* The call on "1-02-1-02-T" has returned after max_passes passes with a
\* text that still starts with a prefix a further pass would remove.
C22_Witness ==
  /\ prefixSt.pc = "done"
  /\ prefixSt.input = ExFourPrefixes
  /\ prefixSt.passes = MaxPasses
  /\ FirstPrefixMatch(prefixSt.working).ok

\* The match of pattern p (1 disc/CD token, 2 side letter + track, 3 disc x
\* track, 4 bare track number) at the start of s.
PatternMatch(p, s) ==
  CASE p = 1 -> MatchDiscPrefix(s)
    [] p = 2 -> MatchSidePrefix(s)
    [] p = 3 -> MatchDiscXTrackPrefix(s)
    [] p = 4 -> MatchTrackPrefix(s)

\* C23: a pass applies the first pattern, in the order 1..4, that matches
\* the working text, and only that one: "02-Artist A - Title" gives
\* "Artist A - Title" with track 2 and no disc, and "1 x 02 - T", which the
\* disc x track and the bare track pattern both match, gives disc 1, track 2.
C23_FirstPatternApplied ==
  /\ (prefixSt.pc \in {"loop", "done"} /\ prefixSt.last.ok) =>
       LET b == prefixSt.last.before
           p == prefixSt.last.pattern
           m == PatternMatch(p, b)
       IN /\ m.ok
          /\ \A q \in 1..(p - 1) : ~PatternMatch(q, b).ok
          /\ prefixSt.last.end = m.end
          /\ prefixSt.last.disc = m.disc
          /\ prefixSt.last.track = m.track
          /\ prefixSt.last.side = m.side
          /\ prefixSt.working = LStrip(SubSeq(b, m.end, Len(b)))
  /\ (prefixSt.pc = "done" /\ prefixSt.input = Ex02ArtistA) =>
       /\ prefixSt.working = <<"A","r","t","i","s","t"," ","A"," ","-"," ",
                               "T","i","t","l","e">>
       /\ prefixSt.track = Some(2) /\ prefixSt.disc = None
  /\ (prefixSt.pc = "done" /\ prefixSt.input = Ex1x02T) =>
       /\ prefixSt.working = <<"T">>
       /\ prefixSt.disc = Some(1) /\ prefixSt.track = Some(2)
       /\ prefixSt.passes = 1

\* "1 x 02 - T" is done after one pass that applied the disc x track pattern
\* to a text the bare track pattern matches as well.
C23_Witness ==
  /\ prefixSt.pc = "done"
  /\ prefixSt.input = Ex1x02T
  /\ prefixSt.last.ok
  /\ prefixSt.last.pattern = 3
  /\ MatchTrackPrefix(prefixSt.last.before).ok

\* C24: whenever strip_path_and_extension strips no known audio extension
\* from the end of the basename, the extension it returns is None; this
\* includes the empty input, and "NoExt Or Weird" comes back unchanged with
\* None.
C24_NoExtensionIsNone ==
  stripSt.pc = "done" =>
     /\ (stripSt.s = <<>> \/ stripSt.working = Basename(stripSt.s)) =>
           stripSt.primary_ext = None
     /\ stripSt.s = ExNoExt =>
           stripSt.working = ExNoExt /\ stripSt.primary_ext = None

\* C25: the output of normalize_separators_whitespace holds no whitespace
\* character other than the ASCII space (tabs, carriage returns, newlines and
\* form feeds have become single spaces), no two spaces in a row, and no
\* space at either end.
C25_OnlySingleSpaces ==
  normSt.pc = "once" =>
     LET out == normSt.out
     IN /\ \A k \in 1..Len(out) : IsSpace(out[k]) => out[k] = " "
        /\ \A k \in 1..(Len(out) - 1) : ~(out[k] = " " /\ out[k + 1] = " ")
        /\ out # <<>> => (out[1] # " " /\ out[Len(out)] # " ")

\* The splits of t into '<version-phrase> by <name>': the positions a at
\* which " by " starts, with a known version phrase before it and a name
\* after it.
ByNameSplits(t) ==
  {a \in 2..(Len(t) - 4) :
     /\ VersionOnly(SubSeq(t, 1, a - 1))
     /\ Lower(SubSeq(t, a, a + 3)) = <<" ", "b", "y", " ">>
     /\ Strip(SubSeq(t, a + 4, Len(t))) # <<>>}

\* C26: an inner text '<version-phrase> by <name>' that none of the feat,
\* live, original-mix and version-only rules matches is classified as a
\* remix segment whose version is the phrase with every word capitalized and
\* whose artist is the whole name, all of its words, with stray punctuation
\* trimmed; "Bootleg by Barry" gives artist "Barry", version "Bootleg".
C26_BylineWholeName ==
  classifySt.pc = "done" =>
     LET t == Strip(classifySt.text)
         seg == classifySt.result[1]
     IN /\ \A a \in ByNameSplits(t) :
             ~(FeatMatches(t) \/ LiveMatches(t) \/ OriginalMixSearch(t)
                 \/ VersionOnly(t)) =>
                /\ seg.type = "remix"
                /\ seg.version = Some(TitleWords(SubSeq(t, 1, a - 1)))
                /\ TidyName(SubSeq(t, a + 4, Len(t))) # <<>> =>
                      seg.artist = Some(TidyName(SubSeq(t, a + 4, Len(t))))
        /\ classifySt.text = ExBootlegByBarry =>
             /\ seg.type = "remix"
             /\ seg.artist = Some(<<"B","a","r","r","y">>)
             /\ seg.version = Some(<<"B","o","o","t","l","e","g">>)

\* C27: the inner text "Original Mix", in any letter case, is classified as
\* a version segment with version "Original Mix" and no artist, by _classify
\* and, with the same result, by the chain of classifier classes; harvesting
\* "Glue (Original Mix)" gives the cleaned text "Glue" and that one segment.
C27_OriginalMixAgreed ==
  /\ (classifySt.pc = "done"
        /\ Lower(Strip(classifySt.text)) = Lower(ExOriginalMix)) =>
       \A seg \in {classifySt.result[1], classifySt.chain[1]} :
          /\ seg.type = "version"
          /\ seg.version = Some(ExOriginalMix)
          /\ seg.artist = None
  /\ (harvestSt.pc = "done" /\ harvestSt.base = ExGlue) =>
       /\ harvestSt.cleaned = <<"G","l","u","e">>
       /\ Len(harvestSt.harvested) = 1
       /\ harvestSt.harvested[1].type = "version"
       /\ harvestSt.harvested[1].version = Some(ExOriginalMix)
       /\ harvestSt.harvested[1].artist = None

(***************************************************************************)
(* SpecCalls: MaxCalls calls of parse_brackets_nested whose steps           *)
(* interleave.  What the calls share is the module-level configuration of  *)
(* step4_parse_brackets.py; everything else is local to a call.            *)
(***************************************************************************)

\* Bound: the number of calls that run at the same time.
MaxCalls == 2

\* pc = ParserConfig(); BRACKET_PAIRS = pc.bracket_pairs; ... (module level)
ModuleConfig ==
  [bracket_pairs |-> BracketPairs, feat_indicators |-> FeatIndicators,
   version_indicators |-> VersionIndicators,
   noise_indicators |-> NoiseIndicators, live_indicators |-> LiveIndicators]

\* compile_classifiers(): the pattern tables, a function of the indicator
\* lists alone.
CompileClassifiers(config) ==
  [feat |-> config.feat_indicators, version |-> config.version_indicators,
   live |-> config.live_indicators, noise |-> config.noise_indicators]

\* "(a)", "a [- (a)]" and "[hq](a)"
CallInputs ==
  {<<"(","a",")">>, ExDashSpan, <<"[","h","q","]","(","a",")">>}

\* The locals of a call parse_brackets_nested(b) that has not started.
CallStart(b) ==
  [pc |-> "start", base |-> b, patterns |-> None, i |-> 0, stack |-> <<>>,
   spans |-> <<>>, order |-> <<>>, k |-> 0, alive |-> <<>>,
   harvested |-> <<>>, cleaned |-> <<>>]

\* The next step of a call that has compiled its patterns: one character of
\* the scan, the sort, one span of the harvest loop, or the cleaned text.
HarvestStepOf(st) ==
  IF st.pc = "scan" /\ st.i < Len(st.base)
    THEN [ScanStep(st, st.base[st.i + 1], st.i) EXCEPT !.i = st.i + 1]
  ELSE IF st.pc = "scan"
    THEN [st EXCEPT !.pc = "harvest", !.stack = <<>>,
                    !.order = SortedSpans(st.spans, Len(st.spans)),
                    !.k = 1,
                    !.alive = [p \in 1..Len(st.base) |-> TRUE]]
  ELSE IF st.pc = "harvest" /\ st.k <= Len(st.order)
    THEN LET sp == st.spans[st.order[st.k]]
             inner == InnerText(st.base, st.alive, sp)
         IN IF IsEffectivelyEmpty(inner)
              THEN [st EXCEPT !.k = @ + 1, !.alive = KillSpan(@, sp)]
              ELSE [st EXCEPT
                      !.k = @ + 1,
                      !.harvested =
                         Append(@, [Classify(inner) EXCEPT
                                      !.raw = <<sp.l>> \o inner \o <<sp.r>>,
                                      !.text = inner,
                                      !.span = sp]),
                      !.alive = KillSpan(@, sp)]
  ELSE IF st.pc = "harvest"
    THEN [st EXCEPT !.pc = "done",
                    !.cleaned = Strip(CollapseSpaces(
                       AliveChars(st.base, st.alive, 0, Len(st.base))))]
  ELSE st

InitCalls ==
  /\ callsSt \in {[config |-> ModuleConfig, compiled |-> 0, call |-> f] :
                    f \in [1..MaxCalls -> {CallStart(b) : b \in CallInputs}]}
  /\ parseSt = Idle /\ dedupeSt = Idle /\ normSt = Idle /\ prefixSt = Idle
  /\ harvestSt = Idle /\ classifySt = Idle /\ stripSt = Idle

\* patterns = compile_classifiers(), the first statement of call c.
CallEnter(c) ==
  /\ callsSt.call[c].pc = "start"
  /\ callsSt' = [callsSt EXCEPT
                   !.compiled = @ + 1,
                   !.call[c].patterns = Some(CompileClassifiers(callsSt.config)),
                   !.call[c].pc = "scan"]
  /\ UNCHANGED <<parseSt, dedupeSt, normSt, prefixSt, harvestSt, classifySt,
                 stripSt>>

\* Call c takes its next step; it writes its own locals only.
CallStep(c) ==
  /\ callsSt.call[c].pc \in {"scan", "harvest"}
  /\ callsSt' = [callsSt EXCEPT !.call[c] = HarvestStepOf(@)]
  /\ UNCHANGED <<parseSt, dedupeSt, normSt, prefixSt, harvestSt, classifySt,
                 stripSt>>

NextCalls == \E c \in 1..MaxCalls : CallEnter(c) \/ CallStep(c)

SpecCalls == InitCalls /\ [][NextCalls]_vars

\* A call run on its own from its first step to its return.
RECURSIVE RunAlone(_)
RunAlone(st) == IF st.pc = "done" THEN st ELSE RunAlone(HarvestStepOf(st))

\* C28: in every interleaving of the calls each call returns what it returns
\* when run alone, the module-level configuration is never written, and the
\* compiled pattern tables are built once from the configuration and never
\* modified afterwards.
C28_CallsShareNothing ==
  /\ [](\A c \in 1..MaxCalls :
          callsSt.call[c].pc = "done" =>
             LET alone == RunAlone([CallStart(callsSt.call[c].base)
                                      EXCEPT !.pc = "scan"])
             IN /\ callsSt.call[c].cleaned = alone.cleaned
                /\ callsSt.call[c].harvested = alone.harvested)
  /\ [][callsSt'.config = callsSt.config]_vars
  /\ [][\A c \in 1..MaxCalls :
          callsSt.call[c].patterns # None =>
             callsSt'.call[c].patterns = callsSt.call[c].patterns]_vars
  /\ [](callsSt.compiled <= 1)

\* Whether the 0-based position i lies inside one of the spans.
InSomeSpan(spans, i) ==
  \E n \in 1..Len(spans) : spans[n].start <= i /\ i < spans[n].end

\* The characters of s that are not whitespace, in order.
NonSpace(s) == SelectSeq(s, LAMBDA c : ~IsSpace(c))

\* The characters of base at the positions outside every span, in order.
OutsideSpans(base, spans) ==
  LET kept[i \in 0..Len(base)] ==
        IF i = 0 THEN <<>>
        ELSE kept[i - 1] \o (IF InSomeSpan(spans, i - 1) THEN <<>> ELSE <<base[i]>>)
  IN kept[Len(base)]

\* C29: when parse_brackets_nested has processed all spans, a position is
\* dead exactly when it lies inside a matched span, and the non-whitespace
\* characters of the cleaned text are, in order, the non-whitespace
\* characters of the input outside every matched span; openers and closers
\* that were never matched are among them.
C29_CleanedIsOutsideSpans ==
  harvestSt.pc = "done" =>
     /\ \A p \in 1..Len(harvestSt.base) :
           harvestSt.alive[p] <=> ~InSomeSpan(harvestSt.spans, p - 1)
     /\ NonSpace(harvestSt.cleaned)
          = NonSpace(OutsideSpans(harvestSt.base, harvestSt.spans))

\* A harvest is over that removed a matched span and left a bracket that was
\* never matched in the cleaned text.
C29_Witness ==
  /\ harvestSt.pc = "done"
  /\ harvestSt.spans # <<>>
  /\ \E k \in 1..Len(harvestSt.cleaned) :
        harvestSt.cleaned[k] \in Openers \cup Closers

\* Whether t is a contiguous substring of s.
IsSubstring(t, s) ==
  \E i \in 1..(Len(s) + 1) :
     i + Len(t) - 1 <= Len(s) /\ t = SubSeq(s, i, i + Len(t) - 1)

\* C30: the basename strip_path_and_extension returns holds no backslash;
\* it holds a forward slash only when none of the code's strong path signals
\* (a backslash, a drive prefix, a UNC prefix, a URL scheme, a CD/Disc folder
\* token, two or more separators) holds for the input; and it is a
\* contiguous substring of the input.
C30_BasenameHasNoSeparator ==
  stripSt.pc = "done" =>
     /\ \A k \in 1..Len(stripSt.working) : stripSt.working[k] # "\\"
     /\ (\E k \in 1..Len(stripSt.working) : stripSt.working[k] = "/") =>
           ~AllowForward(stripSt.s)
     /\ IsSubstring(stripSt.working, stripSt.s)

\* A call has returned on an input that holds a backslash and a forward
\* slash: the text returned is not empty and is shorter than the input.
C30_Witness ==
  /\ stripSt.pc = "done"
  /\ \E k \in 1..Len(stripSt.s) : stripSt.s[k] = "\\"
  /\ \E k \in 1..Len(stripSt.s) : stripSt.s[k] = "/"
  /\ stripSt.working # <<>>
  /\ Len(stripSt.working) < Len(stripSt.s)

====
